---- MODULE Spec2Model ----
(***************************************************************************)
(* Model of forest's remote resolution, prune-eligibility logic, GitHub     *)
(* link parsing and tmux session naming.                                   *)
(*                                                                         *)
(* Strings are sequences of one-character strings, so that prefix and      *)
(* suffix operations of the Go strings package are computed, not assumed.  *)
(***************************************************************************)
EXTENDS Integers, Sequences, FiniteSets, Bags, TLC

VARIABLES
    \* git.NormalizeRemoteURL applied once and twice to an input URL
    normIn,     \* how the input URL was built: transport, owner, repo, suffixes
    raw,        \* the input string handed to NormalizeRemoteURL
    once,       \* NormalizeRemoteURL(raw)
    twice,      \* NormalizeRemoteURL(NormalizeRemoteURL(raw))
    normPc,     \* "start" | "once" | "twice"
    \* config.FindProjectByRemote over the registered projects
    listOk,     \* whether config.ListProjects succeeds
    registry,   \* the registered projects, in the order ListProjects returns them
    nwo,        \* the target identity handed to FindProjectByRemote
    findResult, \* what FindProjectByRemote returned: [name, err]
    findPc,     \* "idle" | "call" | "done"
    \* the tree prune command (runPrune) and what it acts on
    dryRunFlag,     \* the --dry-run flag
    projectFlag,    \* the --project flag, "" when not given
    names,          \* the project names still to visit
    rc,             \* the ResolvedConfig of the project being visited
    worktrees,      \* the worktrees of that project's repository, as git lists them
    sessions,       \* the names of the running tmux sessions
    trees,          \* the list git.List returned when the project was opened
    remoteBranches, \* the result of git.RemoteBranches for the project
    pruneNwo,       \* the result of resolveNWO for the project
    treeIdx,        \* the position of the loop over trees
    pruned,         \* the counter of pruned worktrees
    lastAct,        \* what the command did for the tree it visited last
    prunePc,        \* "idle" | "start" | "project" | "trees" | "done" | "error"
    \* github.ParseLink and github.ParseRepoURL applied to an input URL
    linkIn,     \* how the input URL was built: origin, path segments, decoration
    linkRaw,    \* the input string
    linkOut,    \* ParseLink(linkRaw)
    canonOut,   \* ParseLink of the undecorated URL with the same leading segments
    repoOut,    \* ParseRepoURL(linkRaw)
    repoAgain,  \* ParseRepoURL(repoOut.CloneURL)
    linkPc,     \* "idle" | "start" | "link" | "canon" | "repo" | "done"
    \* forest.AddTree, forest.OpenSession and forest.RemoveTree on a tmux server
    sessTrees,  \* the worktrees that exist: [project, branch, path]
    tmuxServer, \* the running tmux sessions: [name, dir]
    sessAct,    \* what the last operation did
    \* the inline tree browser
    tui,        \* the bubbletea Model: projects, cursor, mode, newProject, action
    tuiInflight, \* the deleteResultMsg of every delete command still running
    tuiRun,     \* "idle" | "running" | "quit" | "panic"
    \* config.InferProjectFromDir on a directory
    inferDir,   \* the directory: its kind and the remotes of its repository
    inferIdx,   \* the position of the loop over the remotes
    inferResult, \* the name and the error returned
    inferPc,    \* "idle" | "start" | "loop" | "done"
    \* forest tree remove
    forceFlag,  \* --force
    rmArgs,     \* the branch argument, or none
    rmTrees,    \* the worktrees of the project
    rmDirty,    \* the branches whose worktree has modified or untracked files
    rmSessions, \* the names of the running tmux sessions
    rmAct,      \* what the command did: errors, prompt, answer, forced removal
    rmPc        \* "idle" | "start" | "remove" | "prompt" | "done"

normVars == <<normIn, raw, once, twice, normPc>>
findVars == <<listOk, registry, nwo, findResult, findPc>>

pruneVars == <<dryRunFlag, projectFlag, names, rc, worktrees, sessions, trees,
               remoteBranches, pruneNwo, treeIdx, pruned, lastAct, prunePc>>

linkVars == <<linkIn, linkRaw, linkOut, canonOut, repoOut, repoAgain, linkPc>>
sessVars == <<sessTrees, tmuxServer, sessAct>>
tuiVars == <<tui, tuiInflight, tuiRun>>
inferVars == <<inferDir, inferIdx, inferResult, inferPc>>
removeVars == <<forceFlag, rmArgs, rmTrees, rmDirty, rmSessions, rmAct, rmPc>>

vars == <<normVars, findVars, pruneVars, linkVars, sessVars, tuiVars, inferVars, removeVars>>

----------------------------------------------------------------------------
(* Bounds *)

MaxOwnerLen == 1
MaxRepoLen == 4
MaxProjects == 2
MaxTrees == 2
MaxSegs == 5
MaxNumLen == 2
MaxInflight == 2

----------------------------------------------------------------------------
(* Go strings package *)

\* strings.HasPrefix
HasPrefix(s, p) ==
    /\ Len(p) <= Len(s)
    /\ SubSeq(s, 1, Len(p)) = p

\* strings.HasSuffix
HasSuffix(s, suf) ==
    /\ Len(suf) <= Len(s)
    /\ SubSeq(s, Len(s) - Len(suf) + 1, Len(s)) = suf

\* strings.CutPrefix: <<after, found>>
CutPrefix(s, p) ==
    IF HasPrefix(s, p) THEN <<SubSeq(s, Len(p) + 1, Len(s)), TRUE>>
                       ELSE <<s, FALSE>>

\* strings.TrimSuffix: removes one trailing occurrence of suf, if any
TrimSuffix(s, suf) ==
    IF HasSuffix(s, suf) THEN SubSeq(s, 1, Len(s) - Len(suf)) ELSE s

\* index of the first occurrence of the one-character separator, 0 if none
IndexOf(s, c) ==
    IF \E i \in 1..Len(s) : s[i] = c
    THEN CHOOSE i \in 1..Len(s) : s[i] = c /\ \A j \in 1..(i - 1) : s[j] # c
    ELSE 0

\* strings.Cut with a one-character separator: <<before, after, found>>
Cut(s, c) ==
    LET i == IndexOf(s, c) IN
    IF i = 0 THEN <<s, <<>>, FALSE>>
             ELSE <<SubSeq(s, 1, i - 1), SubSeq(s, i + 1, Len(s)), TRUE>>

----------------------------------------------------------------------------
(* git.NormalizeRemoteURL *)

SshPrefix == <<"g","i","t","@","g","i","t","h","u","b",".","c","o","m",":">>
HttpsPrefix == <<"h","t","t","p","s",":","/","/","g","i","t","h","u","b",".","c","o","m","/">>
DotGit == <<".","g","i","t">>
Slash == <<"/">>

\* a plausible slip: the SSH prefix is left in place
NormalizeRemoteURL_KeepSsh(s0) ==
    LET s2 == IF CutPrefix(s0, HttpsPrefix)[2] THEN CutPrefix(s0, HttpsPrefix)[1] ELSE s0
        s3 == TrimSuffix(s2, DotGit)
    IN  TrimSuffix(s3, Slash)

NormalizeRemoteURL(s0) ==
    LET s1 == IF CutPrefix(s0, SshPrefix)[2] THEN CutPrefix(s0, SshPrefix)[1] ELSE s0
        s2 == IF CutPrefix(s1, HttpsPrefix)[2] THEN CutPrefix(s1, HttpsPrefix)[1] ELSE s1
        s3 == TrimSuffix(s2, DotGit)
    IN  TrimSuffix(s3, Slash)

----------------------------------------------------------------------------
(* Inputs of the normalizer: URLs built from an owner and a repository name *)

OwnerChars == {"a", "t"}
RepoChars == {"a", ".", "g", "i", "t"}

NamesUpTo(chars, n) == UNION {[1..k -> chars] : k \in 1..n}

\* GitHub owner names
Owners == NamesUpTo(OwnerChars, MaxOwnerLen)

\* GitHub repository names; the host reserves the names "." and ".." and
\* the ".git" suffix, so no repository name ends with it
Repos ==
    {r \in NamesUpTo(RepoChars, MaxRepoLen) :
        ~HasSuffix(r, DotGit) /\ r \notin {<<".">>, <<".", ".">>}}

Transports == {"https", "ssh", "bare"}

\* the URL of owner/repo in the given transport, with the optional suffixes
BuildURL(in) ==
    LET prefix == CASE in.transport = "https" -> HttpsPrefix
                    [] in.transport = "ssh" -> SshPrefix
                    [] OTHER -> <<>>
    IN  prefix \o in.owner \o Slash \o in.repo
            \o (IF in.dotGit THEN DotGit ELSE <<>>)
            \o (IF in.slash THEN Slash ELSE <<>>)

\* the canonical identity "owner/repo"
Identity(in) == in.owner \o Slash \o in.repo

NormInputs ==
    [transport : Transports, owner : Owners, repo : Repos,
     dotGit : BOOLEAN, slash : BOOLEAN]

\* the value of normIn while the normalizer is not in use
IdleNormIn ==
    [transport |-> "bare", owner |-> <<>>, repo |-> <<>>, dotGit |-> FALSE, slash |-> FALSE]

NormalizeFirst ==
    /\ normPc = "start"
    /\ once' = NormalizeRemoteURL(raw)
    /\ normPc' = "once"
    /\ UNCHANGED <<normIn, raw, twice>>
    /\ UNCHANGED <<findVars, pruneVars, linkVars, sessVars, tuiVars, inferVars, removeVars>>

NormalizeAgain ==
    /\ normPc = "once"
    /\ twice' = NormalizeRemoteURL(once)
    /\ normPc' = "twice"
    /\ UNCHANGED <<normIn, raw, once>>
    /\ UNCHANGED <<findVars, pruneVars, linkVars, sessVars, tuiVars, inferVars, removeVars>>

NormNext == NormalizeFirst \/ NormalizeAgain

----------------------------------------------------------------------------
(* config.FindProjectByRemote *)

RemoteNames == {"origin", "upstream"}

\* raw remote URLs configured in the registered repositories
UrlOrgProj == HttpsPrefix \o <<"o", "/", "p">> \o DotGit
UrlUserProj == SshPrefix \o <<"u", "/", "p">>
UrlCorpOther == SshPrefix \o <<"c", "/", "q">> \o DotGit
\* a repository "p" on another host: https://x.y/u/p.git
UrlMirror == <<"h","t","t","p","s",":","/","/","x",".","y","/","u","/","p">> \o DotGit

RemoteURLs == {UrlOrgProj, UrlUserProj, UrlCorpOther, UrlMirror}

\* target identities: those of the URLs above, one no repository has, and
\* the empty string
IdOrgProj == <<"o", "/", "p">>
IdUserProj == <<"u", "/", "p">>
IdCorpOther == <<"c", "/", "q">>
IdMirror == <<"h","t","t","p","s",":","/","/","x",".","y","/","u","/","p">>
IdUnknown == <<"o", "/", "z">>
EmptyString == <<>>

FindTargets == {IdOrgProj, IdUserProj, IdCorpOther, IdMirror, IdUnknown, EmptyString}

\* one remote of a repository: not configured ("absent"), configured but
\* git remote get-url fails ("err"), or configured with a URL ("ok")
RemoteEntries ==
    {[state |-> "absent", url |-> <<>>], [state |-> "err", url |-> <<>>]}
        \cup {[state |-> "ok", url |-> u] : u \in RemoteURLs}

\* a registered project: loadable is FALSE when config.Resolve or
\* git.Remotes fails for it
ProjectConfigs ==
    {[loadable |-> FALSE, remotes |-> [r \in RemoteNames |-> [state |-> "absent", url |-> <<>>]]]}
        \cup [loadable : {TRUE}, remotes : [RemoteNames -> RemoteEntries]]

\* ListProjects returns the names in directory order, which is sorted
ProjectNameAt == <<"alpha", "beta", "delta", "gamma">>

\* the registered projects with the given configurations, named in order
RegistryOf(c) ==
    [i \in DOMAIN c |-> [name |-> ProjectNameAt[i],
                          loadable |-> c[i].loadable,
                          remotes |-> c[i].remotes]]

NoError == [kind |-> "nil", nwo |-> <<>>]
ListError == [kind |-> "reading projects directory", nwo |-> <<>>]
NoMatchError(target) == [kind |-> "no project found with remote matching", nwo |-> target]

\* reading a Go map: the zero value "" when the key is missing
MapGet(m, k) == IF k \in DOMAIN m THEN m[k] ELSE EmptyString

\* the least element of a non-empty set of indices: the first in loop order
FirstIndex(S) == CHOOSE i \in S : \A j \in S : i <= j

\* git.NormalizeRemoteURL of each URL a remote may have
NormalizedOf == [u \in RemoteURLs |-> NormalizeRemoteURL(u)]

\* the map "normalized" built for one project: remotes whose URL lookup
\* fails are left out
NormalizedRemotes(p) ==
    [r \in {x \in RemoteNames : p.remotes[x].state = "ok"} |->
        NormalizedOf[p.remotes[r].url]]

\* the slice "projects": projects that fail to load are skipped
LoadProjects(reg) ==
    LET loaded == SelectSeq(reg, LAMBDA p : p.loadable)
    IN  [i \in 1..Len(loaded) |->
            [name |-> loaded[i].name, remotes |-> NormalizedRemotes(loaded[i])]]

\* the orders in which a range over a map of remotes may visit its keys
RemoteOrders ==
    {ord \in [1..Cardinality(RemoteNames) -> RemoteNames] :
        \A i, j \in DOMAIN ord : i # j => ord[i] # ord[j]}

\* the order that visits the remotes by name
SortedOrder == CHOOSE ord \in RemoteOrders : ord[1] = "origin"

\* a plausible slip: the loop returns the comparison of the first remote
\* it visits
hasRemoteNWO_FirstOnly(remotes, target, ord) ==
    LET keys == SelectSeq(ord, LAMBDA r : r \in DOMAIN remotes)
    IN  keys # <<>> /\ remotes[keys[1]] = target

\* the range over the map, visiting its keys in the order ord: true as soon
\* as a remote equal to the target is visited, false when none is
hasRemoteNWO(remotes, target, ord) ==
    \E k \in DOMAIN ord : ord[k] \in DOMAIN remotes /\ remotes[ord[k]] = target

\* a plausible slip: the first pass accepts a match on any remote
Pass1_AnyRemote(projects, target) ==
    {i \in DOMAIN projects : hasRemoteNWO(projects[i].remotes, target, SortedOrder)}

\* Pass 1: the projects whose origin equals the target
Pass1(projects, target) ==
    {i \in DOMAIN projects : MapGet(projects[i].remotes, "origin") = target}

\* what one call of hasRemoteNWO may return: the range visits the keys of
\* the map in an order that the runtime picks
RangeOutcomes(remotes, target) ==
    {hasRemoteNWO(remotes, target, ord) : ord \in RemoteOrders}

\* what the calls of hasRemoteNWO of one pass may return, one call for each
\* project of the slice: any result where the order matters, the one result
\* where it does not
Scans(projects, target) ==
    LET free == {i \in DOMAIN projects :
                    RangeOutcomes(projects[i].remotes, target) = BOOLEAN}
    IN  {[i \in DOMAIN projects |->
            IF i \in free THEN f[i]
            ELSE hasRemoteNWO(projects[i].remotes, target, SortedOrder)] :
         f \in [free -> BOOLEAN]}

\* the results of the calls when every range visits the remotes by name
SortedScan(projects, target) ==
    [i \in DOMAIN projects |-> hasRemoteNWO(projects[i].remotes, target, SortedOrder)]

\* a plausible slip: the fork-preference pass compares the repository name
\* of the origin and nothing else
Pass2_BasenameOnly(projects, target, has) ==
    LET targetRepo == Cut(target, "/")[2]
    IN  {i \in DOMAIN projects :
            /\ MapGet(projects[i].remotes, "origin") # EmptyString
            /\ Cut(MapGet(projects[i].remotes, "origin"), "/")[2] = targetRepo}

\* Pass 2: some remote equals the target, and the origin has the target's
\* repository name; has[i] is the result of hasRemoteNWO for project i
Pass2(projects, target, has) ==
    LET targetRepo == Cut(target, "/")[2]
    IN  {i \in DOMAIN projects :
            /\ has[i]
            /\ MapGet(projects[i].remotes, "origin") # EmptyString
            /\ Cut(MapGet(projects[i].remotes, "origin"), "/")[2] = targetRepo}

\* a plausible slip: the last pass looks at the origin only
Pass3_OriginOnly(projects, target, has) ==
    {i \in DOMAIN projects : MapGet(projects[i].remotes, "origin") = target}

\* Pass 3: some remote equals the target
Pass3(projects, target, has) == {i \in DOMAIN projects : has[i]}

\* has2 and has3 are the results of hasRemoteNWO in pass 2 and in pass 3
FindProjectByRemote(target, reg, has2, has3) ==
    LET projects == LoadProjects(reg)
        p1 == Pass1(projects, target)
        p2 == Pass2(projects, target, has2)
        p3 == Pass3(projects, target, has3)
    IN  IF p1 # {} THEN [name |-> projects[FirstIndex(p1)].name, err |-> NoError]
        ELSE IF p2 # {} THEN [name |-> projects[FirstIndex(p2)].name, err |-> NoError]
        ELSE IF p3 # {} THEN [name |-> projects[FirstIndex(p3)].name, err |-> NoError]
        ELSE [name |-> "", err |-> NoMatchError(target)]

\* a call FindProjectByRemote(nwo) that finds the project list readable
FindCall ==
    /\ findPc = "call"
    /\ listOk
    /\ \E has2, has3 \in Scans(LoadProjects(registry), nwo) :
            findResult' = FindProjectByRemote(nwo, registry, has2, has3)
    /\ findPc' = "done"
    /\ UNCHANGED <<listOk, registry, nwo>>
    /\ UNCHANGED <<normVars, pruneVars, linkVars, sessVars, tuiVars, inferVars, removeVars>>

\* a call FindProjectByRemote(nwo) in which ListProjects fails
FindListFails ==
    /\ findPc = "call"
    /\ ~listOk
    /\ findResult' = [name |-> "", err |-> ListError]
    /\ findPc' = "done"
    /\ UNCHANGED <<listOk, registry, nwo>>
    /\ UNCHANGED <<normVars, pruneVars, linkVars, sessVars, tuiVars, inferVars, removeVars>>

FindNext == FindCall \/ FindListFails

----------------------------------------------------------------------------
(* Worktrees, tmux sessions and forest.RemoveTree *)

\* strings.ReplaceAll for one-character strings
ReplaceAll(s, from, to) == [i \in 1..Len(s) |-> IF s[i] = from THEN to ELSE s[i]]

\* tmux.SessionName
SessionName(project, branch) == ReplaceAll(project \o <<"-">> \o branch, ".", "_")

\* filepath.Clean on the paths that occur here, whose only unclean element
\* is a trailing separator
Clean(path) == IF Len(path) > 1 THEN TrimSuffix(path, Slash) ELSE path

\* the registered projects, as ListProjects returns them
PruneProjectNames == <<<<"a">>, <<"b">>>>

\* the base branch of the projects (rc.Branch) and the other branches
BaseBranch == <<"m">>
FeatureBranches == {<<"f">>, <<"v", ".", "1">>}
NoBranch == <<>>

\* where the repository of a project is, as git reports it
RepoDir(project) == <<"/">> \o project

\* the repository path as written in the project configuration (rc.Repo)
ConfiguredRepo(project) == RepoDir(project) \o Slash

DigitAt == <<"1", "2", "3", "4">>
LinkedPath(project, i) == <<"/">> \o project \o <<"-", DigitAt[i]>>

\* the main working tree comes first in git worktree list
MainTrees(project) ==
    {[Path |-> RepoDir(project), Branch |-> b, Bare |-> FALSE] : b \in {BaseBranch, <<"f">>, NoBranch}}
        \cup {[Path |-> RepoDir(project), Branch |-> NoBranch, Bare |-> TRUE]}

\* the branches of the linked worktrees: git checks a branch out only once
LinkedBranchLists ==
    {bl \in UNION {[1..n -> {BaseBranch} \cup FeatureBranches \cup {NoBranch}] : n \in 0..MaxTrees} :
        \A i, j \in DOMAIN bl : (i # j /\ bl[i] # NoBranch) => bl[i] # bl[j]}

\* the possible contents of git worktree list for a project
Worlds(project) ==
    {<<main>> \o [i \in 1..Len(bl) |->
                    [Path |-> LinkedPath(project, i), Branch |-> bl[i], Bare |-> FALSE]] :
        <<main, bl>> \in {w \in MainTrees(project) \X LinkedBranchLists :
                            \A i \in DOMAIN w[2] : w[2][i] = NoBranch \/ w[2][i] # w[1].Branch}}

AllSessionNames ==
    {SessionName(PruneProjectNames[i], b) :
        i \in DOMAIN PruneProjectNames, b \in {BaseBranch} \cup FeatureBranches}

\* git.FindByBranch: the position of the first worktree on the branch, 0 for nil
FindByBranch(wts, branch) ==
    IF \E i \in DOMAIN wts : wts[i].Branch = branch
    THEN FirstIndex({i \in DOMAIN wts : wts[i].Branch = branch})
    ELSE 0

RemoveAt(seq, i) == [j \in 1..(Len(seq) - 1) |-> IF j < i THEN seq[j] ELSE seq[j + 1]]

\* forest.RemoveTree: the error it returns and what it leaves behind.
\* gitOk tells whether git worktree remove succeeds; git never removes the
\* main working tree.
RemoveTree(wts, sess, cfg, branch, force, gitOk) ==
    LET i == FindByBranch(wts, branch)
        sessionName == SessionName(cfg.Name, branch)
    IN  IF i = 0
        THEN [err |-> "no worktree found", worktrees |-> wts, sessions |-> sess]
        ELSE IF gitOk /\ i # 1
        THEN [err |-> "nil", worktrees |-> RemoveAt(wts, i), sessions |-> sess \ {sessionName}]
        ELSE [err |-> "git worktree remove", worktrees |-> wts, sessions |-> sess \ {sessionName}]

----------------------------------------------------------------------------
(* git.PruneCheck and the confirmation of a remote-gone branch *)

PruneNone == "PruneNone"
PruneMerged == "PruneMerged"
PruneRemoteGone == "PruneRemoteGone"

\* the remote branch names: a nil map, or a map holding the names
NilBranches == [isNil |-> TRUE, has |-> {}]
BranchMap(S) == [isNil |-> FALSE, has |-> S]

\* git.PruneCheck(repo, branch, target, remoteBranches); the repository is
\* given by its ancestry relation, the pairs <<b, t>> with b merged into t
PruneCheck(ancestry, branch, target, remote) ==
    IF <<branch, target>> \in ancestry THEN PruneMerged
    ELSE IF ~remote.isNil /\ branch \notin remote.has THEN PruneRemoteGone
    ELSE PruneNone

\* a plausible slip at the call site: branch and target are swapped
runPruneReason_Swapped(ancestry, t, cfg, remote) ==
    PruneCheck(ancestry, cfg.Branch, t.Branch, remote)

\* a plausible slip at the call site: the remote branch names are not
\* passed on
runPruneReason_NoRemote(ancestry, t, cfg, remote) ==
    PruneCheck(ancestry, t.Branch, cfg.Branch, NilBranches)

\* a plausible slip at the call site: a failed remote lookup is passed on
\* as an empty map
runPruneReason_NilAsEmpty(ancestry, t, cfg, remote) ==
    PruneCheck(ancestry, t.Branch, cfg.Branch, BranchMap(remote.has))

\* the classification step of runPrune
runPruneReason(ancestry, t, cfg, remote) ==
    PruneCheck(ancestry, t.Branch, cfg.Branch, remote)

\* what the user may type at a prompt, with the line end
Answers == {<<"y", "\n">>, <<"y", "e", "s", "\n">>, <<"Y", "\n">>, <<"n", "\n">>, <<"\n">>}

IsSpace(c) == c \in {" ", "\n", "\t"}

\* strings.TrimSpace
RECURSIVE TrimSpace(_)
TrimSpace(s) ==
    IF s = <<>> THEN s
    ELSE IF IsSpace(s[1]) THEN TrimSpace(Tail(s))
    ELSE IF IsSpace(s[Len(s)]) THEN TrimSpace(SubSeq(s, 1, Len(s) - 1))
    ELSE s

\* strings.ToLower on the letters that occur here
ToLower(s) == [i \in 1..Len(s) |-> CASE s[i] = "Y" -> "y" [] s[i] = "N" -> "n" [] OTHER -> s[i]]

\* confirm: true if the user types y or yes
confirm(answer) == TrimSpace(ToLower(answer)) \in {<<"y">>, <<"y", "e", "s">>}

\* the outcomes of github.IsPRMerged: <<merged, err>>
GhOutcomes == {"merged", "none", "error"}

IsPRMerged(gh) == [merged |-> gh = "merged", err |-> gh = "error"]

\* a slip that would prune without any confirmation
shouldPruneRemoteGone_Always(nw, gh, answer) ==
    [gh |-> "not asked", prompted |-> FALSE, answer |-> <<>>, result |-> TRUE]

\* shouldPruneRemoteGone: what it asks and what it returns
shouldPruneRemoteGone(nw, gh, answer) ==
    IF nw # EmptyString /\ IsPRMerged(gh).merged
    THEN [gh |-> gh, prompted |-> FALSE, answer |-> <<>>, result |-> TRUE]
    ELSE [gh |-> IF nw # EmptyString THEN gh ELSE "not asked",
          prompted |-> TRUE, answer |-> answer, result |-> confirm(answer)]

\* resolveNWO: "" when the origin URL cannot be read
resolveNWO(origin) ==
    IF origin.state = "ok" THEN NormalizeRemoteURL(origin.url) ELSE EmptyString

----------------------------------------------------------------------------
(* The tree prune command: runPrune *)

NoConfig == [Name |-> <<>>, Repo |-> <<>>, Branch |-> <<>>]

NoAct == [kind |-> "none", branch |-> <<>>, path |-> <<>>, isMerged |-> FALSE,
          reason |-> PruneNone, gh |-> "not asked", prompted |-> FALSE,
          answer |-> <<>>, removeTree |-> FALSE]

\* the project names to visit: the --project flag, or all projects
PruneBegin ==
    /\ prunePc = "start"
    /\ names' = IF projectFlag # EmptyString THEN <<projectFlag>> ELSE PruneProjectNames
    /\ prunePc' = "project"
    /\ UNCHANGED <<dryRunFlag, projectFlag, rc, worktrees, sessions, trees,
                   remoteBranches, pruneNwo, treeIdx, pruned, lastAct>>
    /\ UNCHANGED <<normVars, findVars, linkVars, sessVars, tuiVars, inferVars, removeVars>>

\* config.ListProjects fails: the command returns the error
PruneListProjectsFails ==
    /\ prunePc = "start"
    /\ projectFlag = EmptyString
    /\ prunePc' = "error"
    /\ UNCHANGED <<dryRunFlag, projectFlag, names, rc, worktrees, sessions, trees,
                   remoteBranches, pruneNwo, treeIdx, pruned, lastAct>>
    /\ UNCHANGED <<normVars, findVars, linkVars, sessVars, tuiVars, inferVars, removeVars>>

\* the results git.RemoteBranches may give: nil on failure
RemoteBranchResults ==
    {NilBranches} \cup {BranchMap(S) : S \in {{}, {<<"f">>}, {BaseBranch} \cup FeatureBranches}}

\* the next project is opened: its configuration is resolved, its worktrees
\* are listed, its remote branches and its origin identity are looked up
PruneOpenProject ==
    /\ prunePc = "project"
    /\ names # <<>>
    /\ \E world \in Worlds(Head(names)), rb \in RemoteBranchResults,
          origin \in {[state |-> "err", url |-> <<>>], [state |-> "ok", url |-> UrlOrgProj]} :
        /\ rc' = [Name |-> Head(names), Repo |-> ConfiguredRepo(Head(names)), Branch |-> BaseBranch]
        /\ worktrees' = world
        /\ trees' = world
        /\ remoteBranches' = rb
        /\ pruneNwo' = resolveNWO(origin)
    /\ names' = Tail(names)
    /\ treeIdx' = 1
    /\ prunePc' = "trees"
    /\ UNCHANGED <<dryRunFlag, projectFlag, sessions, pruned, lastAct>>
    /\ UNCHANGED <<normVars, findVars, linkVars, sessVars, tuiVars, inferVars, removeVars>>

\* config.Resolve fails for the next project: the command returns the error
PruneResolveFails ==
    /\ prunePc = "project"
    /\ names # <<>>
    /\ names' = Tail(names)
    /\ prunePc' = "error"
    /\ UNCHANGED <<dryRunFlag, projectFlag, rc, worktrees, sessions, trees,
                   remoteBranches, pruneNwo, treeIdx, pruned, lastAct>>
    /\ UNCHANGED <<normVars, findVars, linkVars, sessVars, tuiVars, inferVars, removeVars>>

\* git.List fails for the next project: the command returns the error
PruneListFails ==
    /\ prunePc = "project"
    /\ names # <<>>
    /\ rc' = [Name |-> Head(names), Repo |-> ConfiguredRepo(Head(names)), Branch |-> BaseBranch]
    /\ names' = Tail(names)
    /\ prunePc' = "error"
    /\ UNCHANGED <<dryRunFlag, projectFlag, worktrees, sessions, trees,
                   remoteBranches, pruneNwo, treeIdx, pruned, lastAct>>
    /\ UNCHANGED <<normVars, findVars, linkVars, sessVars, tuiVars, inferVars, removeVars>>

\* a plausible slip: the main working tree is not recognized by its path
SkipsTree_NoPathCheck(t, cfg) ==
    \/ t.Bare
    \/ t.Branch = EmptyString
    \/ t.Branch = cfg.Branch

\* the worktrees the loop passes over without classifying them
SkipsTree(t, cfg) ==
    \/ t.Bare
    \/ t.Branch = EmptyString
    \/ t.Branch = cfg.Branch
    \/ Clean(t.Path) = Clean(cfg.Repo)

AtTree == prunePc = "trees" /\ treeIdx <= Len(trees)

Act(kind, t, merged, reason, should, removing) ==
    [kind |-> kind, branch |-> t.Branch, path |-> t.Path, isMerged |-> merged,
     reason |-> reason, gh |-> should.gh, prompted |-> should.prompted,
     answer |-> should.answer, removeTree |-> removing]

NotAsked == [gh |-> "not asked", prompted |-> FALSE, answer |-> <<>>, result |-> TRUE]

\* the ancestry relations that matter for a worktree's branch
Ancestries(t, cfg) == SUBSET {<<t.Branch, cfg.Branch>>, <<cfg.Branch, t.Branch>>}

\* the confirmation step: nothing is asked unless the reason is remote-gone
Confirmation(reason, nw, gh, answer) ==
    IF reason = PruneRemoteGone THEN shouldPruneRemoteGone(nw, gh, answer) ELSE NotAsked

\* what one pass of the loop body can find out about a worktree: whether
\* its branch is merged, the reason, and the outcome of the confirmation
VisitOutcomes(t, cfg, remote, nw) ==
    {[isMerged |-> <<t.Branch, cfg.Branch>> \in anc,
      reason |-> runPruneReason(anc, t, cfg, remote),
      should |-> Confirmation(runPruneReason(anc, t, cfg, remote), nw, gh, answer)] :
        anc \in Ancestries(t, cfg), gh \in GhOutcomes, answer \in Answers}

PruneSkip ==
    /\ AtTree
    /\ SkipsTree(trees[treeIdx], rc)
    /\ lastAct' = [NoAct EXCEPT !.kind = "skip", !.branch = trees[treeIdx].Branch,
                                !.path = trees[treeIdx].Path]
    /\ treeIdx' = treeIdx + 1
    /\ UNCHANGED <<dryRunFlag, projectFlag, names, rc, worktrees, sessions, trees,
                   remoteBranches, pruneNwo, pruned, prunePc>>
    /\ UNCHANGED <<normVars, findVars, linkVars, sessVars, tuiVars, inferVars, removeVars>>

\* the branch is neither merged nor gone from the remote
PruneKeep ==
    /\ AtTree
    /\ ~SkipsTree(trees[treeIdx], rc)
    /\ \E v \in VisitOutcomes(trees[treeIdx], rc, remoteBranches, pruneNwo) :
        /\ v.reason = PruneNone
        /\ lastAct' = Act("keep", trees[treeIdx], v.isMerged, v.reason, NotAsked, FALSE)
    /\ treeIdx' = treeIdx + 1
    /\ UNCHANGED <<dryRunFlag, projectFlag, names, rc, worktrees, sessions, trees,
                   remoteBranches, pruneNwo, pruned, prunePc>>
    /\ UNCHANGED <<normVars, findVars, linkVars, sessVars, tuiVars, inferVars, removeVars>>

\* the branch is gone from the remote and neither gh nor the user confirms
PruneDecline ==
    /\ AtTree
    /\ ~SkipsTree(trees[treeIdx], rc)
    /\ \E v \in VisitOutcomes(trees[treeIdx], rc, remoteBranches, pruneNwo) :
        /\ v.reason = PruneRemoteGone
        /\ ~v.should.result
        /\ lastAct' = Act("decline", trees[treeIdx], v.isMerged, v.reason, v.should, FALSE)
    /\ treeIdx' = treeIdx + 1
    /\ UNCHANGED <<dryRunFlag, projectFlag, names, rc, worktrees, sessions, trees,
                   remoteBranches, pruneNwo, pruned, prunePc>>
    /\ UNCHANGED <<normVars, findVars, linkVars, sessVars, tuiVars, inferVars, removeVars>>

\* --dry-run: the worktree is reported and counted
PruneDryRun ==
    /\ AtTree
    /\ ~SkipsTree(trees[treeIdx], rc)
    /\ dryRunFlag
    /\ \E v \in VisitOutcomes(trees[treeIdx], rc, remoteBranches, pruneNwo) :
        /\ v.reason # PruneNone
        /\ v.should.result
        /\ lastAct' = Act("would prune", trees[treeIdx], v.isMerged, v.reason, v.should, FALSE)
    /\ pruned' = pruned + 1
    /\ treeIdx' = treeIdx + 1
    /\ UNCHANGED <<dryRunFlag, projectFlag, names, rc, worktrees, sessions, trees,
                   remoteBranches, pruneNwo, prunePc>>
    /\ UNCHANGED <<normVars, findVars, linkVars, sessVars, tuiVars, inferVars, removeVars>>

\* a plausible slip: the removal does not look at --dry-run
PruneRemove_IgnoresDryRun ==
    /\ AtTree
    /\ ~SkipsTree(trees[treeIdx], rc)
    /\ \E v \in VisitOutcomes(trees[treeIdx], rc, remoteBranches, pruneNwo), gitOk \in BOOLEAN :
        LET removal == RemoveTree(worktrees, sessions, rc, trees[treeIdx].Branch, TRUE, gitOk)
        IN  /\ v.reason # PruneNone
            /\ v.should.result
            /\ removal.err = "nil"
            /\ worktrees' = removal.worktrees
            /\ sessions' = removal.sessions
            /\ lastAct' = Act("pruned", trees[treeIdx], v.isMerged, v.reason, v.should, TRUE)
    /\ pruned' = pruned + 1
    /\ treeIdx' = treeIdx + 1
    /\ UNCHANGED <<dryRunFlag, projectFlag, names, rc, trees,
                   remoteBranches, pruneNwo, prunePc>>
    /\ UNCHANGED <<normVars, findVars, linkVars, sessVars, tuiVars, inferVars, removeVars>>

\* forest.RemoveTree is called and succeeds
PruneRemove ==
    /\ AtTree
    /\ ~SkipsTree(trees[treeIdx], rc)
    /\ ~dryRunFlag
    /\ \E v \in VisitOutcomes(trees[treeIdx], rc, remoteBranches, pruneNwo), gitOk \in BOOLEAN :
        LET removal == RemoveTree(worktrees, sessions, rc, trees[treeIdx].Branch, TRUE, gitOk)
        IN  /\ v.reason # PruneNone
            /\ v.should.result
            /\ removal.err = "nil"
            /\ worktrees' = removal.worktrees
            /\ sessions' = removal.sessions
            /\ lastAct' = Act("pruned", trees[treeIdx], v.isMerged, v.reason, v.should, TRUE)
    /\ pruned' = pruned + 1
    /\ treeIdx' = treeIdx + 1
    /\ UNCHANGED <<dryRunFlag, projectFlag, names, rc, trees,
                   remoteBranches, pruneNwo, prunePc>>
    /\ UNCHANGED <<normVars, findVars, linkVars, sessVars, tuiVars, inferVars, removeVars>>

\* forest.RemoveTree is called and fails: the failure is reported
PruneRemoveFails ==
    /\ AtTree
    /\ ~SkipsTree(trees[treeIdx], rc)
    /\ ~dryRunFlag
    /\ \E v \in VisitOutcomes(trees[treeIdx], rc, remoteBranches, pruneNwo), gitOk \in BOOLEAN :
        LET removal == RemoveTree(worktrees, sessions, rc, trees[treeIdx].Branch, TRUE, gitOk)
        IN  /\ v.reason # PruneNone
            /\ v.should.result
            /\ removal.err # "nil"
            /\ worktrees' = removal.worktrees
            /\ sessions' = removal.sessions
            /\ lastAct' = Act("failed to prune", trees[treeIdx], v.isMerged, v.reason, v.should, TRUE)
    /\ treeIdx' = treeIdx + 1
    /\ UNCHANGED <<dryRunFlag, projectFlag, names, rc, trees,
                   remoteBranches, pruneNwo, pruned, prunePc>>
    /\ UNCHANGED <<normVars, findVars, linkVars, sessVars, tuiVars, inferVars, removeVars>>

\* the loop over the project's trees ends, and with it the scope of the
\* loop body's variables
PruneLeaveProject ==
    /\ prunePc = "trees"
    /\ treeIdx > Len(trees)
    /\ rc' = NoConfig
    /\ worktrees' = <<>>
    /\ trees' = <<>>
    /\ remoteBranches' = NilBranches
    /\ pruneNwo' = EmptyString
    /\ treeIdx' = 0
    /\ lastAct' = NoAct
    /\ prunePc' = "project"
    /\ UNCHANGED <<dryRunFlag, projectFlag, names, sessions, pruned>>
    /\ UNCHANGED <<normVars, findVars, linkVars, sessVars, tuiVars, inferVars, removeVars>>

\* all projects are visited: "Nothing to prune." when the counter is 0
PruneFinish ==
    /\ prunePc = "project"
    /\ names = <<>>
    /\ lastAct' = [NoAct EXCEPT !.kind = IF pruned = 0 THEN "Nothing to prune." ELSE "finished"]
    /\ prunePc' = "done"
    /\ UNCHANGED <<dryRunFlag, projectFlag, names, rc, worktrees, sessions, trees,
                   remoteBranches, pruneNwo, treeIdx, pruned>>
    /\ UNCHANGED <<normVars, findVars, linkVars, sessVars, tuiVars, inferVars, removeVars>>

PruneNext ==
    \/ PruneBegin
    \/ PruneListProjectsFails
    \/ PruneOpenProject
    \/ PruneResolveFails
    \/ PruneListFails
    \/ PruneSkip
    \/ PruneKeep
    \/ PruneDecline
    \/ PruneDryRun
    \/ PruneRemove
    \/ PruneRemoveFails
    \/ PruneLeaveProject
    \/ PruneFinish

----------------------------------------------------------------------------
(* net/url.Parse, strings.Trim, strings.Split, strconv.Atoi *)

Letters ==
    {"a","b","c","d","e","f","g","h","i","j","k","l","m",
     "n","o","p","q","r","s","t","u","v","w","x","y","z"}
Digits == <<"0", "1", "2", "3", "4", "5", "6", "7", "8", "9">>
DigitChars == {Digits[i] : i \in DOMAIN Digits}

\* url.getScheme: [ok, scheme, rest]. The scheme is the run of letters,
\* digits, "+", "-" and "." (the first a letter) before the first ":"
getScheme(rawURL) ==
    LET stops == {i \in 1..Len(rawURL) :
                    /\ rawURL[i] \notin Letters
                    /\ ~(i > 1 /\ rawURL[i] \in DigitChars \cup {"+", "-", "."})}
        k == FirstIndex(stops)
    IN  IF stops = {} \/ rawURL[k] # ":"
        THEN [ok |-> TRUE, scheme |-> <<>>, rest |-> rawURL]
        ELSE IF k = 1
        THEN [ok |-> FALSE, scheme |-> <<>>, rest |-> <<>>]
        ELSE [ok |-> TRUE, scheme |-> SubSeq(rawURL, 1, k - 1),
              rest |-> SubSeq(rawURL, k + 1, Len(rawURL))]

\* url.Parse for URLs without user information, port or percent escapes:
\* [ok, Host, Path]. The fragment is cut at the first "#", then the query at
\* the first "?"; an authority follows "//" and ends at the next "/"
urlParse(rawURL) ==
    LET u == Cut(rawURL, "#")[1]
        sch == getScheme(u)
        rest == Cut(sch.rest, "?")[1]
        opaque == sch.scheme # <<>> /\ ~HasPrefix(rest, <<"/">>)
        colonFirst == /\ sch.scheme = <<>>
                      /\ ~HasPrefix(rest, <<"/">>)
                      /\ IndexOf(Cut(rest, "/")[1], ":") # 0
        hasAuthority == /\ sch.scheme # <<>> \/ ~HasPrefix(rest, <<"/", "/", "/">>)
                        /\ HasPrefix(rest, <<"/", "/">>)
        after == SubSeq(rest, 3, Len(rest))
        i == IndexOf(after, "/")
    IN  IF ~sch.ok \/ colonFirst THEN [ok |-> FALSE, Host |-> <<>>, Path |-> <<>>]
        ELSE IF opaque THEN [ok |-> TRUE, Host |-> <<>>, Path |-> <<>>]
        ELSE IF ~hasAuthority THEN [ok |-> TRUE, Host |-> <<>>, Path |-> rest]
        ELSE IF i = 0 THEN [ok |-> TRUE, Host |-> after, Path |-> <<>>]
        ELSE [ok |-> TRUE, Host |-> SubSeq(after, 1, i - 1),
              Path |-> SubSeq(after, i, Len(after))]

\* strings.Trim(s, "/"): every leading and trailing "/" removed
RECURSIVE TrimLeft(_)
TrimLeft(s) == IF s # <<>> /\ Head(s) = "/" THEN TrimLeft(Tail(s)) ELSE s

RECURSIVE TrimRight(_)
TrimRight(s) ==
    IF s # <<>> /\ s[Len(s)] = "/" THEN TrimRight(SubSeq(s, 1, Len(s) - 1)) ELSE s

Trim(s) == TrimRight(TrimLeft(s))

\* strings.Split(s, "/"): the pieces between the separators, empty pieces
\* included; one empty piece for the empty string
RECURSIVE Split(_)
Split(s) ==
    LET i == IndexOf(s, "/") IN
    IF i = 0 THEN <<s>>
             ELSE <<SubSeq(s, 1, i - 1)>> \o Split(SubSeq(s, i + 1, Len(s)))

DigitValue(ch) == (CHOOSE i \in DOMAIN Digits : Digits[i] = ch) - 1

RECURSIVE DecimalValue(_)
DecimalValue(s) ==
    IF s = <<>> THEN 0
    ELSE 10 * DecimalValue(SubSeq(s, 1, Len(s) - 1)) + DigitValue(s[Len(s)])

\* strconv.Atoi on strings shorter than 19 characters: [ok, n]. One leading
\* sign is accepted, then at least one digit and nothing but digits
Atoi(s) ==
    LET signed == s # <<>> /\ s[1] \in {"+", "-"}
        body == IF signed THEN Tail(s) ELSE s
    IN  IF body = <<>> \/ \E i \in DOMAIN body : body[i] \notin DigitChars
        THEN [ok |-> FALSE, n |-> 0]
        ELSE [ok |-> TRUE,
              n |-> IF s[1] = "-" THEN 0 - DecimalValue(body) ELSE DecimalValue(body)]

----------------------------------------------------------------------------
(* github.ParseLink and github.ParseRepoURL *)

GithubHost == <<"g","i","t","h","u","b",".","c","o","m">>
SegIssues == <<"i","s","s","u","e","s">>
SegPull == <<"p","u","l","l">>

LinkNoError == [kind |-> "nil", arg |-> <<>>]
LinkError(kind, arg) == [kind |-> kind, arg |-> arg]

\* the zero Link, returned with every error
ZeroLink == [Kind |-> "KindIssue", Owner |-> <<>>, Repo |-> <<>>, Number |-> 0]

\* the value of the result variables before the call
NoLink == [link |-> ZeroLink, err |-> LinkNoError]

\* Link.NWO
NWO(l) == l.Owner \o <<"/">> \o l.Repo

\* a plausible slip: the two kinds are exchanged
KindOf_Swapped(kindStr) ==
    CASE kindStr = SegIssues -> [ok |-> TRUE, kind |-> "KindPR"]
      [] kindStr = SegPull -> [ok |-> TRUE, kind |-> "KindIssue"]
      [] OTHER -> [ok |-> FALSE, kind |-> "KindIssue"]

\* the switch on the third segment
KindOf(kindStr) ==
    CASE kindStr = SegIssues -> [ok |-> TRUE, kind |-> "KindIssue"]
      [] kindStr = SegPull -> [ok |-> TRUE, kind |-> "KindPR"]
      [] OTHER -> [ok |-> FALSE, kind |-> "KindIssue"]

\* a plausible slip: a trailing slash is not trimmed from the path
LinkParts_NoTrim(path) == Split(TrimLeft(path))

\* the slice "parts"
LinkParts(path) == Split(Trim(path))

\* a plausible slip: the number is converted before the kind is looked at
ParseLink_NumberFirst(rawURL) ==
    LET u == urlParse(rawURL)
        parts == LinkParts(u.Path)
        kind == KindOf(parts[3])
        num == Atoi(parts[4])
    IN  IF ~u.ok THEN [link |-> ZeroLink, err |-> LinkError("parsing URL", rawURL)]
        ELSE IF u.Host # GithubHost
        THEN [link |-> ZeroLink, err |-> LinkError("unsupported host", u.Host)]
        ELSE IF Len(parts) < 4
        THEN [link |-> ZeroLink, err |-> LinkError("unexpected path", u.Path)]
        ELSE IF ~num.ok
        THEN [link |-> ZeroLink, err |-> LinkError("parsing number", parts[4])]
        ELSE IF ~kind.ok
        THEN [link |-> ZeroLink, err |-> LinkError("unexpected path segment", parts[3])]
        ELSE [link |-> [Kind |-> kind.kind, Owner |-> parts[1], Repo |-> parts[2],
                        Number |-> num.n],
              err |-> LinkNoError]

\* github.ParseLink
ParseLink(rawURL) ==
    LET u == urlParse(rawURL)
        parts == LinkParts(u.Path)
        kind == KindOf(parts[3])
        num == Atoi(parts[4])
    IN  IF ~u.ok THEN [link |-> ZeroLink, err |-> LinkError("parsing URL", rawURL)]
        ELSE IF u.Host # GithubHost
        THEN [link |-> ZeroLink, err |-> LinkError("unsupported host", u.Host)]
        ELSE IF Len(parts) < 4
        THEN [link |-> ZeroLink, err |-> LinkError("unexpected path", u.Path)]
        ELSE IF ~kind.ok
        THEN [link |-> ZeroLink, err |-> LinkError("unexpected path segment", parts[3])]
        ELSE IF ~num.ok
        THEN [link |-> ZeroLink, err |-> LinkError("parsing number", parts[4])]
        ELSE [link |-> [Kind |-> kind.kind, Owner |-> parts[1], Repo |-> parts[2],
                        Number |-> num.n],
              err |-> LinkNoError]

\* the zero RepoInfo, returned with every error
ZeroRepoInfo == [Owner |-> <<>>, Repo |-> <<>>, CloneURL |-> <<>>]
NoRepoInfo == [info |-> ZeroRepoInfo, err |-> LinkNoError]

ParseRepoURL(rawURL) ==
    LET u == urlParse(rawURL)
        parts == Split(Trim(u.Path))
        owner == parts[1]
        repo == TrimSuffix(parts[2], DotGit)
    IN  IF ~u.ok THEN [info |-> ZeroRepoInfo, err |-> LinkError("parsing URL", rawURL)]
        ELSE IF u.Host # GithubHost
        THEN [info |-> ZeroRepoInfo, err |-> LinkError("unsupported host", u.Host)]
        ELSE IF Len(parts) < 2 \/ parts[1] = <<>> \/ parts[2] = <<>>
        THEN [info |-> ZeroRepoInfo, err |-> LinkError("cannot parse owner/repo", rawURL)]
        ELSE [info |-> [Owner |-> owner, Repo |-> repo,
                        CloneURL |-> HttpsPrefix \o owner \o <<"/">> \o repo \o DotGit],
              err |-> LinkNoError]

----------------------------------------------------------------------------
(* Inputs of the link parser: URLs built from path segments *)

SegWiki == <<"w","i","k","i">>
SegFiles == <<"f","i","l","e","s">>
NumChars == {"0", "7", "-", "x"}

\* the segments a URL may have at each position: an owner, a repository
\* name, a kind, a number, then anything; "" stands for a doubled slash
SegChoices(i) ==
    CASE i = 1 -> {<<"o">>}
      [] i = 2 -> {<<"r">>, <<"r">> \o DotGit, DotGit, <<>>}
      [] i = 3 -> {SegIssues, SegPull, SegWiki}
      [] i = 4 -> NamesUpTo(NumChars, MaxNumLen) \cup {<<>>}
      [] OTHER -> {SegFiles}

RECURSIVE SegLists(_)
SegLists(n) ==
    IF n = 0 THEN {<<>>}
    ELSE {Append(s, t) : s \in SegLists(n - 1), t \in SegChoices(n)}

\* the segment lists of up to MaxSegs segments; the last one is not empty,
\* since a slash after it belongs to the decoration
LinkSegs == UNION {{s \in SegLists(n) : n = 0 \/ s[n] # <<>>} : n \in 0..MaxSegs}

\* scheme and host; a URL without a scheme has no host for url.Parse, and
\* one that starts with "://" is rejected by it
LinkOrigins ==
    {[scheme |-> <<"h","t","t","p","s">>, host |-> GithubHost],
     [scheme |-> <<"h","t","t","p">>, host |-> GithubHost],
     [scheme |-> <<"h","t","t","p","s">>, host |-> <<"g","i","t","l","a","b",".","c","o","m">>],
     [scheme |-> <<>>, host |-> GithubHost],
     [scheme |-> <<>>, host |-> <<":", "/", "/">> \o GithubHost]}

\* what surrounds the segments: a doubled leading slash, and a tail made of
\* a trailing slash, a query string or a fragment
PlainDeco == [lead |-> FALSE, tail |-> <<>>]
Decorations ==
    {PlainDeco,
     [lead |-> TRUE, tail |-> <<>>],
     [lead |-> FALSE, tail |-> <<"/">>],
     [lead |-> FALSE, tail |-> <<"?","a","=","/","b">>],
     [lead |-> FALSE, tail |-> <<"#","a","/","b">>],
     [lead |-> TRUE, tail |-> <<"/","?","a","#","b">>]}

LinkInputs == [origin : LinkOrigins, segs : LinkSegs, deco : Decorations]

\* the value of linkIn while the link parser is not in use
IdleLinkIn == [origin |-> [scheme |-> <<>>, host |-> <<>>], segs |-> <<>>, deco |-> PlainDeco]

RECURSIVE Join(_)
Join(segs) ==
    IF segs = <<>> THEN <<>>
    ELSE IF Len(segs) = 1 THEN segs[1]
    ELSE segs[1] \o <<"/">> \o Join(Tail(segs))

\* the URL text of an input
BuildLink(in) ==
    (IF in.origin.scheme = <<>> THEN <<>> ELSE in.origin.scheme \o <<":", "/", "/">>)
        \o in.origin.host
        \o (IF in.segs = <<>> THEN <<>>
            ELSE <<"/">> \o (IF in.deco.lead THEN <<"/">> ELSE <<>>) \o Join(in.segs))
        \o in.deco.tail

\* the undecorated HTTPS URL with the same first four segments
Canonical(in) ==
    [origin |-> IF in.origin.scheme = <<>> THEN in.origin
                ELSE [scheme |-> <<"h","t","t","p","s">>, host |-> in.origin.host],
     segs |-> IF Len(in.segs) > 4 /\ in.segs[4] # <<>> THEN SubSeq(in.segs, 1, 4)
              ELSE in.segs,
     deco |-> PlainDeco]

ParseLinkCall ==
    /\ linkPc = "start"
    /\ linkOut' = ParseLink(linkRaw)
    /\ linkPc' = "link"
    /\ UNCHANGED <<linkIn, linkRaw, canonOut, repoOut, repoAgain>>
    /\ UNCHANGED <<normVars, findVars, pruneVars, sessVars, tuiVars, inferVars, removeVars>>

ParseLinkCanonical ==
    /\ linkPc = "link"
    /\ canonOut' = ParseLink(BuildLink(Canonical(linkIn)))
    /\ linkPc' = "canon"
    /\ UNCHANGED <<linkIn, linkRaw, linkOut, repoOut, repoAgain>>
    /\ UNCHANGED <<normVars, findVars, pruneVars, sessVars, tuiVars, inferVars, removeVars>>

ParseRepoCall ==
    /\ linkPc = "canon"
    /\ repoOut' = ParseRepoURL(linkRaw)
    /\ linkPc' = "repo"
    /\ UNCHANGED <<linkIn, linkRaw, linkOut, canonOut, repoAgain>>
    /\ UNCHANGED <<normVars, findVars, pruneVars, sessVars, tuiVars, inferVars, removeVars>>

\* the clone URL of a successful result is parsed again
ParseRepoAgain ==
    /\ linkPc = "repo"
    /\ repoOut.err = LinkNoError
    /\ repoAgain' = ParseRepoURL(repoOut.info.CloneURL)
    /\ linkPc' = "done"
    /\ UNCHANGED <<linkIn, linkRaw, linkOut, canonOut, repoOut>>
    /\ UNCHANGED <<normVars, findVars, pruneVars, sessVars, tuiVars, inferVars, removeVars>>

LinkNext == ParseLinkCall \/ ParseLinkCanonical \/ ParseRepoCall \/ ParseRepoAgain

----------------------------------------------------------------------------
(* forest.AddTree, forest.OpenSession and forest.RemoveTree on a tmux server *)

\* the project the commands work on
SessConfig ==
    [Name |-> <<"a">>, Repo |-> ConfiguredRepo(<<"a">>), Branch |-> BaseBranch,
     Copy |-> <<".env">>]

\* rc.WorktreeDir
WorktreeDir == <<"/", "w">>

\* the branches handed to the commands
SessBranches == FeatureBranches \cup {<<"v", "_", "1">>, <<"f", "/", "x">>}

\* git.SafeBranchDir
SafeBranchDir(branch) == ReplaceAll(branch, "/", "-")

\* filepath.Join(rc.WorktreeDir, rc.Name, git.SafeBranchDir(branch))
WorktreePath(cfg, branch) ==
    WorktreeDir \o <<"/">> \o cfg.Name \o <<"/">> \o SafeBranchDir(branch)

\* the main working tree of the project, the first entry of git worktree list
SessMainTree == [Path |-> RepoDir(SessConfig.Name), Branch |-> BaseBranch, Bare |-> FALSE]

\* a worktree created before the SafeBranchDir convention, at the path that
\* joins the branch name as it is
LegacyTree ==
    [Path |-> WorktreeDir \o <<"/">> \o SessConfig.Name \o <<"/", "f", "/", "x">>,
     Branch |-> <<"f", "/", "x">>, Bare |-> FALSE]

\* tmux.SessionExists
SessionExists(server, name) == \E s \in server : s.name = name

\* the working directory of the session with the given name
SessionDir(server, name) == (CHOOSE s \in server : s.name = name).dir

\* what an operation did: the session name it computed, the worktree path
\* it worked on, whether a session of that name was running, and the
\* working directory of that session
NoSessAct ==
    [op |-> "none", branch |-> <<>>, session |-> <<>>, path |-> <<>>,
     found |-> FALSE, dir |-> <<>>, created |-> FALSE, copied |-> FALSE, err |-> "nil"]

SessActOf(op, branch, path) ==
    LET name == SessionName(SessConfig.Name, branch)
        found == SessionExists(tmuxServer, name)
    IN  [op |-> op, branch |-> branch, session |-> name, path |-> path,
         found |-> found, dir |-> IF found THEN SessionDir(tmuxServer, name) ELSE <<>>,
         created |-> FALSE, copied |-> FALSE, err |-> "nil"]

\* git.Add: git worktree add refuses a path that is taken and a branch that
\* is checked out already; gitOk tells whether it succeeds otherwise
GitAdd(wts, path, branch, gitOk) ==
    IF \/ ~gitOk
       \/ \E i \in DOMAIN wts : wts[i].Path = path \/ wts[i].Branch = branch
    THEN [err |-> "git worktree add", worktrees |-> wts]
    ELSE [err |-> "nil",
          worktrees |-> Append(wts, [Path |-> path, Branch |-> branch, Bare |-> FALSE])]

\* a plausible slip: the worktree is added without looking for one on the
\* branch
AddTree_NoLookup(wts, cfg, branch, gitOk) ==
    LET wtPath == WorktreePath(cfg, branch)
        added == GitAdd(wts, wtPath, branch, gitOk)
    IN  IF added.err # "nil"
        THEN [err |-> added.err, Created |-> FALSE, WorktreePath |-> <<>>,
              copied |-> FALSE, worktrees |-> wts]
        ELSE [err |-> "nil", Created |-> TRUE, WorktreePath |-> wtPath,
              copied |-> Len(cfg.Copy) > 0, worktrees |-> added.worktrees]

\* forest.AddTree: the error and the AddTreeResult it returns, whether files
\* were copied, and the worktrees it leaves behind
AddTree(wts, cfg, branch, gitOk) ==
    LET i == FindByBranch(wts, branch)
        wtPath == WorktreePath(cfg, branch)
        added == GitAdd(wts, wtPath, branch, gitOk)
    IN  IF i # 0
        THEN [err |-> "nil", Created |-> FALSE, WorktreePath |-> wts[i].Path,
              copied |-> FALSE, worktrees |-> wts]
        ELSE IF added.err # "nil"
        THEN [err |-> added.err, Created |-> FALSE, WorktreePath |-> <<>>,
              copied |-> FALSE, worktrees |-> wts]
        ELSE [err |-> "nil", Created |-> TRUE, WorktreePath |-> wtPath,
              copied |-> Len(cfg.Copy) > 0, worktrees |-> added.worktrees]

\* what a call of AddTree did
AddActOf(branch, res) ==
    [SessActOf("add", branch, res.WorktreePath) EXCEPT
        !.created = res.Created, !.copied = res.copied, !.err = res.err]

\* forest.AddTree for a branch that has a worktree: the worktree is reused
SessAddTreeExisting ==
    \E branch \in SessBranches, gitOk \in BOOLEAN :
        LET res == AddTree(sessTrees, SessConfig, branch, gitOk)
        IN  /\ FindByBranch(sessTrees, branch) # 0
            /\ sessTrees' = res.worktrees
            /\ sessAct' = AddActOf(branch, res)
            /\ UNCHANGED tmuxServer
            /\ UNCHANGED <<normVars, findVars, pruneVars, linkVars, tuiVars, inferVars, removeVars>>

\* forest.AddTree for a branch without a worktree: git worktree add creates
\* one, unless it fails
SessAddTreeNew ==
    \E branch \in SessBranches, gitOk \in BOOLEAN :
        LET res == AddTree(sessTrees, SessConfig, branch, gitOk)
        IN  /\ FindByBranch(sessTrees, branch) = 0
            /\ Len(sessTrees) <= MaxTrees
            /\ sessTrees' = res.worktrees
            /\ sessAct' = AddActOf(branch, res)
            /\ UNCHANGED tmuxServer
            /\ UNCHANGED <<normVars, findVars, pruneVars, linkVars, tuiVars, inferVars, removeVars>>

\* forest.OpenSession for the worktree of a branch: a session of that name
\* is left as it is, otherwise one is created in the worktree
OpenSession ==
    \E branch \in SessBranches :
        LET i == FindByBranch(sessTrees, branch)
            sessionName == SessionName(SessConfig.Name, branch)
        IN  /\ i # 0
            /\ tmuxServer' =
                  IF SessionExists(tmuxServer, sessionName) THEN tmuxServer
                  ELSE tmuxServer \cup {[name |-> sessionName, dir |-> sessTrees[i].Path]}
            /\ sessAct' = SessActOf("open", branch, sessTrees[i].Path)
            /\ UNCHANGED sessTrees
            /\ UNCHANGED <<normVars, findVars, pruneVars, linkVars, tuiVars, inferVars, removeVars>>

\* forest.RemoveTree for a branch, with or without force; git may refuse
SessRemoveTree ==
    \E branch \in SessBranches, force \in BOOLEAN, gitOk \in BOOLEAN :
        LET i == FindByBranch(sessTrees, branch)
            res == RemoveTree(sessTrees, {s.name : s \in tmuxServer}, SessConfig,
                              branch, force, gitOk)
        IN  /\ sessTrees' = res.worktrees
            /\ tmuxServer' = {s \in tmuxServer : s.name \in res.sessions}
            /\ sessAct' = IF i = 0 THEN [NoSessAct EXCEPT !.op = "remove", !.branch = branch]
                          ELSE SessActOf("remove", branch, sessTrees[i].Path)
            /\ UNCHANGED <<normVars, findVars, pruneVars, linkVars, tuiVars, inferVars, removeVars>>

SessNext == SessAddTreeExisting \/ SessAddTreeNew \/ OpenSession \/ SessRemoveTree

----------------------------------------------------------------------------
(* The inline tree browser (package tui) *)

\* the interaction modes
modeBrowse == "modeBrowse"
modeConfirmDelete == "modeConfirmDelete"
modeDeleting == "modeDeleting"
modeNewSelectProject == "modeNewSelectProject"
modeNewInputBranch == "modeNewInputBranch"

\* the keys pressed: one key of every binding of defaultKeyMap
KeyUp == "up"
KeyDown == "down"
KeyToggle == "tab"
KeyOpen == "enter"
KeyDelete == "d"
KeyNew == "n"
KeyConfirm == "y"
KeyCancel == "esc"
KeyQuit == "ctrl+c"
Keys == {KeyUp, KeyDown, KeyToggle, KeyOpen, KeyDelete, KeyNew, KeyConfirm, KeyCancel, KeyQuit}

\* what the branch name input may hold when enter is pressed (input.Value())
InputValues == {<<>>, <<" ">>, <<"x">>, <<"x", " ">>}

\* the branches of the worktrees git.List reports for a project, the main
\* working tree first
ListedBranches == <<BaseBranch, <<"f">>, <<"g">>, <<"h">>>>

\* the names of the registered projects
TuiProjectNames == <<<<"a">>, <<"b">>, <<"c">>, <<"d">>>>

\* the commands a handler returns: nothing, tea.Quit, the asynchronous
\* delete with the message it will send, or a runtime panic of the handler
CmdNil == [kind |-> "nil"]
CmdQuit == [kind |-> "quit"]
CmdPanic == [kind |-> "panic"]
\* (the project and branch names of the message only feed the status line)
CmdDelete(pi, ti) == [kind |-> "delete", msg |-> [projectIdx |-> pi, treeIdx |-> ti]]

\* Model.action: nil, or the switch to the session of the selected tree
NilAction == [session |-> <<>>, path |-> <<>>]

\* the rows taken by the first k projects
RECURSIVE RowsOf(_, _)
RowsOf(projects, k) ==
    IF k = 0 THEN 0
    ELSE RowsOf(projects, k - 1) + 1
            + (IF projects[k].expanded THEN Len(projects[k].trees) ELSE 0)

\* Model.visibleRows
visibleRows(m) == RowsOf(m.projects, Len(m.projects))

\* Model.moveCursor
moveCursor(m, delta) ==
    LET total == visibleRows(m)
        moved == m.cursor + delta
    IN  IF total = 0 THEN m
        ELSE [m EXCEPT !.cursor = IF moved < 0 THEN 0
                                  ELSE IF moved >= total THEN total - 1
                                  ELSE moved]

\* Model.cursorTarget: the indices count from 0 as in the source, treeIdx is
\* -1 on a project row, and a cursor on no row gives (0, -1)
cursorTarget(m) ==
    LET hit == {k \in DOMAIN m.projects :
                    /\ RowsOf(m.projects, k - 1) <= m.cursor
                    /\ m.cursor < RowsOf(m.projects, k)}
    IN  IF hit = {} THEN [projectIdx |-> 0, treeIdx |-> -1]
        ELSE LET k == FirstIndex(hit)
             IN  [projectIdx |-> k - 1,
                  treeIdx |-> m.cursor - RowsOf(m.projects, k - 1) - 1]

\* Model.toggleExpand
toggleExpand(m) ==
    LET pi == cursorTarget(m).projectIdx
    IN  IF pi < Len(m.projects)
        THEN [m EXCEPT !.projects[pi + 1].expanded = ~m.projects[pi + 1].expanded]
        ELSE m

\* Model.openSelected
openSelected(m) ==
    LET t == cursorTarget(m)
        p == m.projects[t.projectIdx + 1]
        branch == p.trees[t.treeIdx + 1]
    IN  IF t.treeIdx = -1
        THEN [m |-> toggleExpand(m), cmd |-> CmdNil]
        ELSE [m |-> [m EXCEPT !.action =
                        [session |-> SessionName(p.name, branch),
                         path |-> WorktreeDir \o <<"/">> \o p.name \o <<"/">> \o branch]],
              cmd |-> CmdQuit]

\* Model.startDelete
startDelete(m) ==
    IF cursorTarget(m).treeIdx = -1
    THEN [m |-> m, cmd |-> CmdNil]
    ELSE [m |-> [m EXCEPT !.mode = modeConfirmDelete], cmd |-> CmdNil]

\* Model.executeDelete
executeDelete(m) ==
    LET t == cursorTarget(m)
    IN  IF t.treeIdx = -1
        THEN [m |-> m, cmd |-> CmdPanic]
        ELSE [m |-> [m EXCEPT !.mode = modeDeleting],
              cmd |-> CmdDelete(t.projectIdx, t.treeIdx)]

\* Model.handleConfirmDelete
handleConfirmDelete(m, msg) ==
    IF msg = KeyConfirm THEN executeDelete(m)
    ELSE [m |-> [m EXCEPT !.mode = modeBrowse], cmd |-> CmdNil]

\* Model.handleDeleteResult; err tells whether msg.err is set
handleDeleteResult(m, msg, err) ==
    LET pi == msg.projectIdx + 1
        ti == msg.treeIdx + 1
        back == [m EXCEPT !.mode = modeBrowse]
        cut == [back EXCEPT !.projects[pi].trees = RemoveAt(m.projects[pi].trees, ti)]
        total == visibleRows(cut)
    IN  IF err THEN [m |-> back, cmd |-> CmdNil]
        ELSE IF ti > Len(m.projects[pi].trees) THEN [m |-> back, cmd |-> CmdPanic]
        ELSE [m |-> IF cut.cursor >= total /\ total > 0
                    THEN [cut EXCEPT !.cursor = total - 1] ELSE cut,
              cmd |-> CmdNil]

\* Model.startNew
startNew(m) == [m |-> [m EXCEPT !.mode = modeNewSelectProject], cmd |-> CmdNil]

\* Model.handleNewSelectProject
handleNewSelectProject(m, msg) ==
    LET pi == cursorTarget(m).projectIdx
    IN  IF msg \in {KeyQuit, KeyCancel} THEN [m |-> [m EXCEPT !.mode = modeBrowse], cmd |-> CmdNil]
        ELSE IF msg = KeyUp THEN [m |-> moveCursor(m, -1), cmd |-> CmdNil]
        ELSE IF msg = KeyDown THEN [m |-> moveCursor(m, 1), cmd |-> CmdNil]
        ELSE IF msg = KeyOpen /\ pi < Len(m.projects)
        THEN [m |-> [m EXCEPT !.newProject = m.projects[pi + 1].name,
                              !.mode = modeNewInputBranch],
              cmd |-> CmdNil]
        ELSE [m |-> m, cmd |-> CmdNil]

\* Model.executeNewTree; value is the text of the branch name input,
\* resolveOk and addOk tell whether config.Resolve and git.Add succeed (git
\* refuses a branch that is checked out already)
executeNewTree(m, value, resolveOk, addOk) ==
    LET branch == TrimSpace(value)
        i == FirstIndex({k \in DOMAIN m.projects : m.projects[k].name = m.newProject})
    IN  IF branch = <<>> THEN [m |-> m, cmd |-> CmdNil]
        ELSE IF ~resolveOk \/ ~addOk \/ \E j \in DOMAIN m.projects[i].trees : m.projects[i].trees[j] = branch
        THEN [m |-> [m EXCEPT !.mode = modeBrowse], cmd |-> CmdNil]
        ELSE [m |-> [m EXCEPT !.projects[i].trees = Append(m.projects[i].trees, branch),
                              !.projects[i].expanded = TRUE,
                              !.mode = modeBrowse],
              cmd |-> CmdNil]

\* Model.handleNewBranchInput; any other key goes to the text input, whose
\* text is outside the Model fields followed here
handleNewBranchInput(m, msg, value, resolveOk, addOk) ==
    IF msg = KeyCancel THEN [m |-> [m EXCEPT !.mode = modeBrowse], cmd |-> CmdNil]
    ELSE IF msg = KeyOpen THEN executeNewTree(m, value, resolveOk, addOk)
    ELSE [m |-> m, cmd |-> CmdNil]

\* Model.handleKey
handleKey(m, msg, value, resolveOk, addOk) ==
    IF m.mode = modeNewInputBranch THEN handleNewBranchInput(m, msg, value, resolveOk, addOk)
    ELSE IF m.mode = modeConfirmDelete THEN handleConfirmDelete(m, msg)
    ELSE IF m.mode = modeNewSelectProject THEN handleNewSelectProject(m, msg)
    ELSE IF msg = KeyQuit THEN [m |-> m, cmd |-> CmdQuit]
    ELSE IF msg = KeyUp THEN [m |-> moveCursor(m, -1), cmd |-> CmdNil]
    ELSE IF msg = KeyDown THEN [m |-> moveCursor(m, 1), cmd |-> CmdNil]
    ELSE IF msg = KeyToggle THEN [m |-> toggleExpand(m), cmd |-> CmdNil]
    ELSE IF msg = KeyOpen THEN openSelected(m)
    ELSE IF msg = KeyDelete THEN startDelete(m)
    ELSE IF msg = KeyNew THEN startNew(m)
    ELSE [m |-> m, cmd |-> CmdNil]

\* tui.NewModel for n projects with the given numbers of worktrees
NewModel(n, counts) ==
    [projects |-> [k \in 1..n |->
                      [name |-> TuiProjectNames[k],
                       trees |-> SubSeq(ListedBranches, 1, counts[k]),
                       expanded |-> FALSE]],
     cursor |-> 0,
     mode |-> modeBrowse,
     newProject |-> <<>>,
     action |-> NilAction]

IdleModel == NewModel(0, <<>>)

\* the program after a command: it runs on, has quit, or has panicked
RunAfter(cmd) ==
    IF cmd.kind = "quit" THEN "quit" ELSE IF cmd.kind = "panic" THEN "panic" ELSE "running"

\* what a key handler may meet outside the Model: the text of the input and
\* the outcomes of config.Resolve and git.Add, read by executeNewTree only
Environments ==
    IF tui.mode = modeNewInputBranch
    THEN [value : InputValues, resolveOk : BOOLEAN, addOk : BOOLEAN]
    ELSE {[value |-> <<>>, resolveOk |-> TRUE, addOk |-> TRUE]}

\* Model.Update for a tea.KeyMsg
UpdateKey ==
    \E msg \in Keys, env \in Environments :
        LET r == handleKey(tui, msg, env.value, env.resolveOk, env.addOk)
        IN  /\ tuiRun = "running"
            /\ \A k \in DOMAIN r.m.projects : Len(r.m.projects[k].trees) <= MaxTrees
            /\ r.cmd.kind = "delete" => BagCardinality(tuiInflight) < MaxInflight
            /\ tui' = r.m
            /\ tuiInflight' = IF r.cmd.kind = "delete"
                              THEN tuiInflight (+) SetToBag({r.cmd.msg})
                              ELSE tuiInflight
            /\ tuiRun' = RunAfter(r.cmd)
            /\ UNCHANGED <<normVars, findVars, pruneVars, linkVars, sessVars, inferVars, removeVars>>

\* Model.Update for the deleteResultMsg of a delete that has finished; the
\* outcome of git.Remove is known when the message arrives
UpdateDeleteResult ==
    \E msg \in BagToSet(tuiInflight), err \in BOOLEAN :
        LET r == handleDeleteResult(tui, msg, err)
        IN  /\ tuiRun = "running"
            /\ tui' = r.m
            /\ tuiInflight' = tuiInflight (-) SetToBag({msg})
            /\ tuiRun' = RunAfter(r.cmd)
            /\ UNCHANGED <<normVars, findVars, pruneVars, linkVars, sessVars, inferVars, removeVars>>

TuiNext == UpdateKey \/ UpdateDeleteResult

----------------------------------------------------------------------------
(* config.InferProjectFromDir *)

\* error messages, word by word
NoInferError == <<>>
NotInGitRepository == <<"not", "in", "a", "git", "repository,", "use", "--project">>
NoRegisteredProject ==
    <<"no", "registered", "project", "matches", "current", "repository,", "use", "--project">>

\* the remotes of a repository that is not registered: none, or an origin
\* with one of the URLs
UnregisteredRemotes ==
    {[r \in RemoteNames |-> [state |-> "absent", url |-> <<>>]]}
        \cup {[r \in RemoteNames |->
                 IF r = "origin" THEN [state |-> "ok", url |-> u]
                 ELSE [state |-> "absent", url |-> <<>>]] : u \in RemoteURLs}

\* the directories InferProjectFromDir is run on: one outside any git
\* repository, the repository of the registered project at position
\* "project" (or a subdirectory of it), or an unregistered repository
NotGitDir == [kind |-> "notgit", project |-> 0,
              remotes |-> [r \in RemoteNames |-> [state |-> "absent", url |-> <<>>]]]
ProjectDir(reg, i) == [kind |-> "project", project |-> i, remotes |-> reg[i].remotes]
OtherDir(remotes) == [kind |-> "other", project |-> 0, remotes |-> remotes]

\* git.Remotes: the names of the configured remotes, as git remote prints
\* them, sorted by name
Remotes(dir) == SelectSeq(SortedOrder, LAMBDA r : dir.remotes[r].state # "absent")

\* remotes, err := git.Remotes(dir)
InferRemotes ==
    /\ inferPc = "start"
    /\ IF inferDir.kind = "notgit"
       THEN /\ inferResult' = [name |-> "", err |-> NotInGitRepository]
            /\ inferPc' = "done"
       ELSE /\ inferPc' = "loop"
            /\ UNCHANGED inferResult
    /\ UNCHANGED <<inferDir, inferIdx>>
    /\ UNCHANGED <<normVars, findVars, pruneVars, linkVars, sessVars, tuiVars, removeVars>>

\* one round of the loop in which git.RemoteURL fails: continue
InferRemoteURLFails ==
    /\ inferPc = "loop"
    /\ inferIdx <= Len(Remotes(inferDir))
    /\ inferDir.remotes[Remotes(inferDir)[inferIdx]].state = "err"
    /\ inferIdx' = inferIdx + 1
    /\ UNCHANGED <<inferDir, inferResult, inferPc>>
    /\ UNCHANGED <<normVars, findVars, pruneVars, linkVars, sessVars, tuiVars, removeVars>>

\* one round of the loop that calls FindProjectByRemote on the normalized
\* URL of the remote: its project is returned when it finds one
InferFind ==
    /\ inferPc = "loop"
    /\ inferIdx <= Len(Remotes(inferDir))
    /\ inferDir.remotes[Remotes(inferDir)[inferIdx]].state = "ok"
    /\ LET target == NormalizeRemoteURL(inferDir.remotes[Remotes(inferDir)[inferIdx]].url)
       IN  \E has2, has3 \in Scans(LoadProjects(registry), target) :
              LET found == IF listOk THEN FindProjectByRemote(target, registry, has2, has3)
                           ELSE [name |-> "", err |-> ListError]
              IN  IF found.err = NoError
                  THEN /\ inferResult' = [name |-> found.name, err |-> NoInferError]
                       /\ inferPc' = "done"
                       /\ UNCHANGED inferIdx
                  ELSE /\ inferIdx' = inferIdx + 1
                       /\ UNCHANGED <<inferResult, inferPc>>
    /\ UNCHANGED inferDir
    /\ UNCHANGED <<normVars, findVars, pruneVars, linkVars, sessVars, tuiVars, removeVars>>

\* the loop ends without a project
InferNoMatch ==
    /\ inferPc = "loop"
    /\ inferIdx > Len(Remotes(inferDir))
    /\ inferResult' = [name |-> "", err |-> NoRegisteredProject]
    /\ inferPc' = "done"
    /\ UNCHANGED <<inferDir, inferIdx>>
    /\ UNCHANGED <<normVars, findVars, pruneVars, linkVars, sessVars, tuiVars, removeVars>>

InferNext == InferRemotes \/ InferRemoteURLFails \/ InferFind \/ InferNoMatch

----------------------------------------------------------------------------
(* forest tree remove *)

ErrWorktreeDirty == "ErrWorktreeDirty"
ErrGitWorktreeRemove == "git worktree remove"

\* a plausible slip: --force is passed to git whatever the caller asked for
removeWorktree_AlwaysForce(dirty, force, gitFails) ==
    IF gitFails THEN ErrGitWorktreeRemove ELSE "nil"

\* git.removeWorktree: git refuses a worktree with modified or untracked
\* files unless --force is given; gitFails stands for any other failure
removeWorktree(dirty, force, gitFails) ==
    IF gitFails THEN ErrGitWorktreeRemove
    ELSE IF dirty /\ ~force THEN ErrWorktreeDirty
    ELSE "nil"

\* the worktrees of the project: the main working tree and one for each of
\* the branches f and g
RemoveBranches == {<<"f">>, <<"g">>}
RemoveTrees ==
    <<SessMainTree,
      [Path |-> WorktreePath(SessConfig, <<"f">>), Branch |-> <<"f">>, Bare |-> FALSE],
      [Path |-> WorktreePath(SessConfig, <<"g">>), Branch |-> <<"g">>, Bare |-> FALSE]>>

\* the command line: a branch argument (also the base branch, or a branch
\* without a worktree), or none, and then the worktree of the working
\* directory is detected
RemoveArgs ==
    [mode : {"branch"}, branch : RemoveBranches \cup {BaseBranch, <<"h">>}]
        \cup [mode : {"detect"}, branch : RemoveBranches]

NoRemoveAct ==
    [branch |-> <<>>, first |-> "not called", prompted |-> FALSE, answer |-> <<>>,
     forced |-> FALSE, err |-> "nil", removed |-> FALSE]

\* forest.RemoveTree(rc, branch, force) on the worktrees and sessions at
\* hand, with the error of git.Remove or git.ForceRemove
RemoveTreeCall(branch, force, gitFails) ==
    LET e == removeWorktree(branch \in rmDirty, force, gitFails)
        res == RemoveTree(rmTrees, rmSessions, SessConfig, branch, force, e = "nil")
    IN  [res EXCEPT !.err = IF res.err = ErrGitWorktreeRemove /\ e # "nil" THEN e ELSE res.err]

\* resolveProject, detectCurrentWorktree or config.Resolve fails: the error
\* is returned
RemoveArgsFail ==
    /\ rmPc = "start"
    /\ rmAct' = [NoRemoveAct EXCEPT !.err = "resolving"]
    /\ rmPc' = "done"
    /\ UNCHANGED <<forceFlag, rmArgs, rmTrees, rmDirty, rmSessions>>
    /\ UNCHANGED <<normVars, findVars, pruneVars, linkVars, sessVars, tuiVars, inferVars>>

\* a branch argument is given
RemoveBranchGiven ==
    /\ rmPc = "start"
    /\ rmArgs.mode = "branch"
    /\ rmAct' = [NoRemoveAct EXCEPT !.branch = rmArgs.branch]
    /\ rmPc' = "remove"
    /\ UNCHANGED <<forceFlag, rmArgs, rmTrees, rmDirty, rmSessions>>
    /\ UNCHANGED <<normVars, findVars, pruneVars, linkVars, sessVars, tuiVars, inferVars>>

\* no argument: the worktree of the working directory is detected and the
\* user is asked "Remove worktree?"
RemoveDetected ==
    /\ rmPc = "start"
    /\ rmArgs.mode = "detect"
    /\ \E answer \in Answers :
          IF confirm(answer)
          THEN /\ rmAct' = [NoRemoveAct EXCEPT !.branch = rmArgs.branch]
               /\ rmPc' = "remove"
          ELSE /\ rmAct' = NoRemoveAct
               /\ rmPc' = "done"
    /\ UNCHANGED <<forceFlag, rmArgs, rmTrees, rmDirty, rmSessions>>
    /\ UNCHANGED <<normVars, findVars, pruneVars, linkVars, sessVars, tuiVars, inferVars>>

\* err = forest.RemoveTree(rc, branch, forceFlag)
RemoveFirst ==
    /\ rmPc = "remove"
    /\ \E gitFails \in BOOLEAN :
          LET res == RemoveTreeCall(rmAct.branch, forceFlag, gitFails)
          IN  /\ rmTrees' = res.worktrees
              /\ rmSessions' = res.sessions
              /\ rmAct' = [rmAct EXCEPT !.first = res.err,
                                        !.err = IF res.err = ErrWorktreeDirty THEN "nil" ELSE res.err,
                                        !.removed = (res.err = "nil")]
              /\ rmPc' = IF res.err = ErrWorktreeDirty THEN "prompt" ELSE "done"
    /\ UNCHANGED <<forceFlag, rmArgs, rmDirty>>
    /\ UNCHANGED <<normVars, findVars, pruneVars, linkVars, sessVars, tuiVars, inferVars>>

\* the worktree is dirty: "Force remove?", and RemoveTree(rc, branch, true)
\* when the user confirms
RemoveForce ==
    /\ rmPc = "prompt"
    /\ \E answer \in Answers, gitFails \in BOOLEAN :
          LET res == RemoveTreeCall(rmAct.branch, TRUE, gitFails)
          IN  IF ~confirm(answer)
              THEN /\ rmAct' = [rmAct EXCEPT !.prompted = TRUE, !.answer = answer]
                   /\ UNCHANGED <<rmTrees, rmSessions>>
              ELSE /\ rmTrees' = res.worktrees
                   /\ rmSessions' = res.sessions
                   /\ rmAct' = [rmAct EXCEPT !.prompted = TRUE, !.answer = answer,
                                             !.forced = TRUE, !.err = res.err,
                                             !.removed = (res.err = "nil")]
    /\ rmPc' = "done"
    /\ UNCHANGED <<forceFlag, rmArgs, rmDirty>>
    /\ UNCHANGED <<normVars, findVars, pruneVars, linkVars, sessVars, tuiVars, inferVars>>

RemoveNext ==
    RemoveArgsFail \/ RemoveBranchGiven \/ RemoveDetected \/ RemoveFirst \/ RemoveForce

----------------------------------------------------------------------------
(* Specifications *)

InitResolve ==
    /\ normIn = IdleNormIn /\ raw = <<>> /\ once = <<>> /\ twice = <<>> /\ normPc = "idle"
    /\ \/ /\ listOk = TRUE
          /\ \E n \in 0..MaxProjects : \E c \in [1..n -> ProjectConfigs] :
                registry = RegistryOf(c)
       \/ /\ listOk = FALSE
          /\ registry = <<>>
    /\ nwo \in FindTargets
    /\ findResult = [name |-> "", err |-> NoError]
    /\ findPc = "call"
    /\ dryRunFlag = FALSE /\ projectFlag = EmptyString /\ names = <<>> /\ rc = NoConfig
    /\ worktrees = <<>> /\ sessions = {} /\ trees = <<>> /\ remoteBranches = NilBranches
    /\ pruneNwo = EmptyString /\ treeIdx = 0 /\ pruned = 0 /\ lastAct = NoAct
    /\ prunePc = "idle"
    /\ linkIn = IdleLinkIn /\ linkRaw = <<>> /\ linkOut = NoLink /\ canonOut = NoLink
    /\ repoOut = NoRepoInfo /\ repoAgain = NoRepoInfo /\ linkPc = "idle"
    /\ sessTrees = {} /\ tmuxServer = {} /\ sessAct = NoSessAct
    /\ tui = IdleModel /\ tuiInflight = EmptyBag /\ tuiRun = "idle"
    /\ inferDir = NotGitDir /\ inferIdx = 1 /\ inferResult = [name |-> "", err |-> NoInferError]
    /\ inferPc = "idle"
    /\ forceFlag = FALSE /\ rmArgs = [mode |-> "branch", branch |-> <<>>] /\ rmTrees = <<>>
    /\ rmDirty = {} /\ rmSessions = {} /\ rmAct = NoRemoveAct /\ rmPc = "idle"

SpecResolve == InitResolve /\ [][FindNext]_vars

InitPrune ==
    /\ normIn = IdleNormIn /\ raw = <<>> /\ once = <<>> /\ twice = <<>> /\ normPc = "idle"
    /\ listOk = TRUE /\ registry = <<>> /\ nwo = EmptyString
    /\ findResult = [name |-> "", err |-> NoError] /\ findPc = "idle"
    /\ dryRunFlag \in BOOLEAN
    /\ projectFlag \in {EmptyString} \cup {PruneProjectNames[i] : i \in DOMAIN PruneProjectNames}
    /\ names = <<>>
    /\ rc = NoConfig
    /\ worktrees = <<>>
    /\ sessions \in {{}, AllSessionNames}
    /\ trees = <<>>
    /\ remoteBranches = NilBranches
    /\ pruneNwo = EmptyString
    /\ treeIdx = 0
    /\ pruned = 0
    /\ lastAct = NoAct
    /\ prunePc = "start"
    /\ linkIn = IdleLinkIn /\ linkRaw = <<>> /\ linkOut = NoLink /\ canonOut = NoLink
    /\ repoOut = NoRepoInfo /\ repoAgain = NoRepoInfo /\ linkPc = "idle"
    /\ sessTrees = {} /\ tmuxServer = {} /\ sessAct = NoSessAct
    /\ tui = IdleModel /\ tuiInflight = EmptyBag /\ tuiRun = "idle"
    /\ inferDir = NotGitDir /\ inferIdx = 1 /\ inferResult = [name |-> "", err |-> NoInferError]
    /\ inferPc = "idle"
    /\ forceFlag = FALSE /\ rmArgs = [mode |-> "branch", branch |-> <<>>] /\ rmTrees = <<>>
    /\ rmDirty = {} /\ rmSessions = {} /\ rmAct = NoRemoveAct /\ rmPc = "idle"

SpecPrune == InitPrune /\ [][PruneNext]_vars

InitNormalize ==
    /\ normIn \in NormInputs
    /\ raw = BuildURL(normIn)
    /\ once = <<>>
    /\ twice = <<>>
    /\ normPc = "start"
    /\ listOk = TRUE /\ registry = <<>> /\ nwo = EmptyString
    /\ findResult = [name |-> "", err |-> NoError] /\ findPc = "idle"
    /\ dryRunFlag = FALSE /\ projectFlag = EmptyString /\ names = <<>> /\ rc = NoConfig
    /\ worktrees = <<>> /\ sessions = {} /\ trees = <<>> /\ remoteBranches = NilBranches
    /\ pruneNwo = EmptyString /\ treeIdx = 0 /\ pruned = 0 /\ lastAct = NoAct
    /\ prunePc = "idle"
    /\ linkIn = IdleLinkIn /\ linkRaw = <<>> /\ linkOut = NoLink /\ canonOut = NoLink
    /\ repoOut = NoRepoInfo /\ repoAgain = NoRepoInfo /\ linkPc = "idle"
    /\ sessTrees = {} /\ tmuxServer = {} /\ sessAct = NoSessAct
    /\ tui = IdleModel /\ tuiInflight = EmptyBag /\ tuiRun = "idle"
    /\ inferDir = NotGitDir /\ inferIdx = 1 /\ inferResult = [name |-> "", err |-> NoInferError]
    /\ inferPc = "idle"
    /\ forceFlag = FALSE /\ rmArgs = [mode |-> "branch", branch |-> <<>>] /\ rmTrees = <<>>
    /\ rmDirty = {} /\ rmSessions = {} /\ rmAct = NoRemoveAct /\ rmPc = "idle"

SpecNormalize == InitNormalize /\ [][NormNext]_vars

InitLink ==
    /\ normIn = IdleNormIn /\ raw = <<>> /\ once = <<>> /\ twice = <<>> /\ normPc = "idle"
    /\ listOk = TRUE /\ registry = <<>> /\ nwo = EmptyString
    /\ findResult = [name |-> "", err |-> NoError] /\ findPc = "idle"
    /\ dryRunFlag = FALSE /\ projectFlag = EmptyString /\ names = <<>> /\ rc = NoConfig
    /\ worktrees = <<>> /\ sessions = {} /\ trees = <<>> /\ remoteBranches = NilBranches
    /\ pruneNwo = EmptyString /\ treeIdx = 0 /\ pruned = 0 /\ lastAct = NoAct
    /\ prunePc = "idle"
    /\ linkIn \in LinkInputs
    /\ linkRaw = BuildLink(linkIn)
    /\ linkOut = NoLink /\ canonOut = NoLink
    /\ repoOut = NoRepoInfo /\ repoAgain = NoRepoInfo
    /\ linkPc = "start"
    /\ sessTrees = {} /\ tmuxServer = {} /\ sessAct = NoSessAct
    /\ tui = IdleModel /\ tuiInflight = EmptyBag /\ tuiRun = "idle"
    /\ inferDir = NotGitDir /\ inferIdx = 1 /\ inferResult = [name |-> "", err |-> NoInferError]
    /\ inferPc = "idle"
    /\ forceFlag = FALSE /\ rmArgs = [mode |-> "branch", branch |-> <<>>] /\ rmTrees = <<>>
    /\ rmDirty = {} /\ rmSessions = {} /\ rmAct = NoRemoveAct /\ rmPc = "idle"

SpecLink == InitLink /\ [][LinkNext]_vars

InitSession ==
    /\ normIn = IdleNormIn /\ raw = <<>> /\ once = <<>> /\ twice = <<>> /\ normPc = "idle"
    /\ listOk = TRUE /\ registry = <<>> /\ nwo = EmptyString
    /\ findResult = [name |-> "", err |-> NoError] /\ findPc = "idle"
    /\ dryRunFlag = FALSE /\ projectFlag = EmptyString /\ names = <<>> /\ rc = NoConfig
    /\ worktrees = <<>> /\ sessions = {} /\ trees = <<>> /\ remoteBranches = NilBranches
    /\ pruneNwo = EmptyString /\ treeIdx = 0 /\ pruned = 0 /\ lastAct = NoAct
    /\ prunePc = "idle"
    /\ linkIn = IdleLinkIn /\ linkRaw = <<>> /\ linkOut = NoLink /\ canonOut = NoLink
    /\ repoOut = NoRepoInfo /\ repoAgain = NoRepoInfo /\ linkPc = "idle"
    /\ sessTrees \in {<<SessMainTree>>, <<SessMainTree, LegacyTree>>}
    /\ tmuxServer = {}
    /\ sessAct = NoSessAct
    /\ tui = IdleModel /\ tuiInflight = EmptyBag /\ tuiRun = "idle"
    /\ inferDir = NotGitDir /\ inferIdx = 1 /\ inferResult = [name |-> "", err |-> NoInferError]
    /\ inferPc = "idle"
    /\ forceFlag = FALSE /\ rmArgs = [mode |-> "branch", branch |-> <<>>] /\ rmTrees = <<>>
    /\ rmDirty = {} /\ rmSessions = {} /\ rmAct = NoRemoveAct /\ rmPc = "idle"

SpecSession == InitSession /\ [][SessNext]_vars

InitTui ==
    /\ normIn = IdleNormIn /\ raw = <<>> /\ once = <<>> /\ twice = <<>> /\ normPc = "idle"
    /\ listOk = TRUE /\ registry = <<>> /\ nwo = EmptyString
    /\ findResult = [name |-> "", err |-> NoError] /\ findPc = "idle"
    /\ dryRunFlag = FALSE /\ projectFlag = EmptyString /\ names = <<>> /\ rc = NoConfig
    /\ worktrees = <<>> /\ sessions = {} /\ trees = <<>> /\ remoteBranches = NilBranches
    /\ pruneNwo = EmptyString /\ treeIdx = 0 /\ pruned = 0 /\ lastAct = NoAct
    /\ prunePc = "idle"
    /\ linkIn = IdleLinkIn /\ linkRaw = <<>> /\ linkOut = NoLink /\ canonOut = NoLink
    /\ repoOut = NoRepoInfo /\ repoAgain = NoRepoInfo /\ linkPc = "idle"
    /\ sessTrees = {} /\ tmuxServer = {} /\ sessAct = NoSessAct
    /\ \E n \in 0..MaxProjects : \E counts \in [1..n -> 0..MaxTrees] :
          tui = NewModel(n, counts)
    /\ tuiInflight = EmptyBag
    /\ tuiRun = "running"
    /\ inferDir = NotGitDir /\ inferIdx = 1 /\ inferResult = [name |-> "", err |-> NoInferError]
    /\ inferPc = "idle"
    /\ forceFlag = FALSE /\ rmArgs = [mode |-> "branch", branch |-> <<>>] /\ rmTrees = <<>>
    /\ rmDirty = {} /\ rmSessions = {} /\ rmAct = NoRemoveAct /\ rmPc = "idle"

SpecTui == InitTui /\ [][TuiNext]_vars

InitInfer ==
    /\ normIn = IdleNormIn /\ raw = <<>> /\ once = <<>> /\ twice = <<>> /\ normPc = "idle"
    /\ listOk \in BOOLEAN
    /\ \E n \in 0..MaxProjects : \E c \in [1..n -> ProjectConfigs] :
          /\ registry = RegistryOf(c)
          /\ \/ inferDir = NotGitDir
             \/ \E i \in 1..n : c[i].loadable /\ inferDir = ProjectDir(RegistryOf(c), i)
             \/ \E remotes \in UnregisteredRemotes : inferDir = OtherDir(remotes)
    /\ nwo = EmptyString
    /\ findResult = [name |-> "", err |-> NoError] /\ findPc = "idle"
    /\ dryRunFlag = FALSE /\ projectFlag = EmptyString /\ names = <<>> /\ rc = NoConfig
    /\ worktrees = <<>> /\ sessions = {} /\ trees = <<>> /\ remoteBranches = NilBranches
    /\ pruneNwo = EmptyString /\ treeIdx = 0 /\ pruned = 0 /\ lastAct = NoAct
    /\ prunePc = "idle"
    /\ linkIn = IdleLinkIn /\ linkRaw = <<>> /\ linkOut = NoLink /\ canonOut = NoLink
    /\ repoOut = NoRepoInfo /\ repoAgain = NoRepoInfo /\ linkPc = "idle"
    /\ sessTrees = {} /\ tmuxServer = {} /\ sessAct = NoSessAct
    /\ tui = IdleModel /\ tuiInflight = EmptyBag /\ tuiRun = "idle"
    /\ inferIdx = 1
    /\ inferResult = [name |-> "", err |-> NoInferError]
    /\ inferPc = "start"
    /\ forceFlag = FALSE /\ rmArgs = [mode |-> "branch", branch |-> <<>>] /\ rmTrees = <<>>
    /\ rmDirty = {} /\ rmSessions = {} /\ rmAct = NoRemoveAct /\ rmPc = "idle"

SpecInfer == InitInfer /\ [][InferNext]_vars

InitRemove ==
    /\ normIn = IdleNormIn /\ raw = <<>> /\ once = <<>> /\ twice = <<>> /\ normPc = "idle"
    /\ listOk = TRUE /\ registry = <<>> /\ nwo = EmptyString
    /\ findResult = [name |-> "", err |-> NoError] /\ findPc = "idle"
    /\ dryRunFlag = FALSE /\ projectFlag = EmptyString /\ names = <<>> /\ rc = NoConfig
    /\ worktrees = <<>> /\ sessions = {} /\ trees = <<>> /\ remoteBranches = NilBranches
    /\ pruneNwo = EmptyString /\ treeIdx = 0 /\ pruned = 0 /\ lastAct = NoAct
    /\ prunePc = "idle"
    /\ linkIn = IdleLinkIn /\ linkRaw = <<>> /\ linkOut = NoLink /\ canonOut = NoLink
    /\ repoOut = NoRepoInfo /\ repoAgain = NoRepoInfo /\ linkPc = "idle"
    /\ sessTrees = {} /\ tmuxServer = {} /\ sessAct = NoSessAct
    /\ tui = IdleModel /\ tuiInflight = EmptyBag /\ tuiRun = "idle"
    /\ inferDir = NotGitDir /\ inferIdx = 1 /\ inferResult = [name |-> "", err |-> NoInferError]
    /\ inferPc = "idle"
    /\ forceFlag \in BOOLEAN
    /\ rmArgs \in RemoveArgs
    /\ rmTrees = RemoveTrees
    /\ rmDirty \in SUBSET RemoveBranches
    /\ rmSessions \in SUBSET {SessionName(SessConfig.Name, b) : b \in RemoveBranches}
    /\ rmAct = NoRemoveAct
    /\ rmPc = "start"

SpecRemove == InitRemove /\ [][RemoveNext]_vars

----------------------------------------------------------------------------
(* Claims about NormalizeRemoteURL *)

\* a supported URL shape: HTTPS or SSH transport, optional .git suffix,
\* optional trailing slash, in any combination
SupportedShape == normIn.transport \in {"https", "ssh"}

\* C9: NormalizeRemoteURL is idempotent on every supported URL shape:
\* normalizing the normalized form gives the normalized form again.
C9_NormalizeIdempotent ==
    (normPc = "twice" /\ SupportedShape) => twice = once

\* the five forms of C10: https with .git, https, https with trailing slash,
\* ssh with .git, ssh
FiveForms ==
    \/ normIn.transport = "https" /\ ~(normIn.dotGit /\ normIn.slash)
    \/ normIn.transport = "ssh" /\ ~normIn.slash

\* C10: NormalizeRemoteURL is transport-agnostic: each of the five URL forms
\* of owner/repo normalizes to exactly "owner/repo", so any two of them
\* compare equal after normalization.
C10_TransportAgnostic ==
    (normPc # "start" /\ FiveForms) => once = Identity(normIn)

C10_Witness ==
    /\ normPc = "once"
    /\ normIn.transport = "ssh"
    /\ normIn.dotGit
    /\ ~normIn.slash
    /\ once = Identity(normIn)
    /\ raw # once

----------------------------------------------------------------------------
(* Claims about FindProjectByRemote, stated over the registered            *)
(* repositories themselves                                                 *)

\* project i is in the collection and its remote r resolves to identity t
RemoteIs(i, r, t) ==
    /\ registry[i].loadable
    /\ registry[i].remotes[r].state = "ok"
    /\ NormalizeRemoteURL(registry[i].remotes[r].url) = t

OriginMatches(t) == {i \in DOMAIN registry : RemoteIs(i, "origin", t)}

AnyRemoteMatches(t) == {i \in DOMAIN registry : \E r \in RemoteNames : RemoteIs(i, r, t)}

\* the repository-name component: the part after the last "/"
RECURSIVE LastSegment(_)
LastSegment(s) ==
    IF IndexOf(s, "/") = 0 THEN s
    ELSE LastSegment(SubSeq(s, IndexOf(s, "/") + 1, Len(s)))

\* projects with a remote equal to t whose own origin has t's repository name
ForkMatches(t) ==
    {i \in AnyRemoteMatches(t) :
        /\ registry[i].remotes["origin"].state = "ok"
        /\ LastSegment(NormalizeRemoteURL(registry[i].remotes["origin"].url)) = LastSegment(t)}

Returned(i) == findResult.err = NoError /\ findResult.name = registry[i].name

FindDone == findPc = "done" /\ listOk

C2_ForkPreference ==
    (FindDone /\ OriginMatches(nwo) = {} /\ ForkMatches(nwo) # {})
        => Returned(FirstIndex(ForkMatches(nwo)))

\* C3: when neither the origin-exact pass nor the fork-preference pass yields
\* a project, the first project in order with any remote equal to the target
\* is returned.
C3_Fallback ==
    (/\ FindDone
     /\ Pass1(LoadProjects(registry), nwo) = {}
     /\ Pass2(LoadProjects(registry), nwo, SortedScan(LoadProjects(registry), nwo)) = {}
     /\ AnyRemoteMatches(nwo) # {})
        => Returned(FirstIndex(AnyRemoteMatches(nwo)))

C3_Witness ==
    /\ FindDone
    /\ Pass1(LoadProjects(registry), nwo) = {}
    /\ Pass2(LoadProjects(registry), nwo, SortedScan(LoadProjects(registry), nwo)) = {}
    /\ \E i, j \in DOMAIN registry :
        /\ i < j
        /\ RemoteIs(i, "upstream", nwo)
        /\ RemoteIs(j, "upstream", nwo)
        /\ Returned(i)

\* C4: FindProjectByRemote fails exactly when no project has a remote whose
\* normalized identity equals the target; the error names the target and no
\* project name comes with it.
C4_FailsIffNoMatch ==
    FindDone =>
        /\ (findResult.err # NoError) <=> (AnyRemoteMatches(nwo) = {})
        /\ (findResult.err # NoError) =>
              (findResult.err = NoMatchError(nwo) /\ findResult.name = "")

----------------------------------------------------------------------------
(* Claims about PruneCheck, as runPrune calls it, and about the             *)
(* confirmation of remote-gone branches                                     *)

\* the loop has just classified a worktree's branch
Classified == lastAct.kind \in {"keep", "decline", "would prune", "pruned", "failed to prune"}

\* C5: whenever the branch is merged into the target branch, PruneCheck
\* returns Merged, whatever the remote branch names are: nil, empty, with or
\* without the branch.
C5_MergedPrecedence ==
    (Classified /\ lastAct.isMerged) => lastAct.reason = PruneMerged

C5_Witness ==
    /\ Classified
    /\ lastAct.isMerged
    /\ remoteBranches = BranchMap({})
    /\ lastAct.reason = PruneMerged

\* C6: for a branch that is not merged, PruneCheck returns RemoteGone exactly
\* when the remote branch names are non-nil and do not contain the branch;
\* when they contain the branch it returns None.
C6_RemoteGone ==
    (Classified /\ ~lastAct.isMerged) =>
        /\ (lastAct.reason = PruneRemoteGone) <=>
              (~remoteBranches.isNil /\ lastAct.branch \notin remoteBranches.has)
        /\ (lastAct.branch \in remoteBranches.has) => lastAct.reason = PruneNone

C6_Witness ==
    /\ Classified
    /\ ~lastAct.isMerged
    /\ remoteBranches = BranchMap({<<"f">>})
    /\ lastAct.branch = <<"v", ".", "1">>
    /\ lastAct.reason = PruneRemoteGone

\* C7: for a branch that is not merged, nil remote branch names give None
\* (the remote check is skipped) and an empty non-nil set gives RemoteGone.
C7_NilIsNotEmpty ==
    (Classified /\ ~lastAct.isMerged) =>
        /\ remoteBranches = NilBranches => lastAct.reason = PruneNone
        /\ remoteBranches = BranchMap({}) => lastAct.reason = PruneRemoteGone

C7_Witness ==
    /\ Classified
    /\ ~lastAct.isMerged
    /\ remoteBranches = NilBranches
    /\ lastAct.reason = PruneNone

\* the answers that say yes: y or yes, in any case
YesAnswers == {<<"y", "\n">>, <<"y", "e", "s", "\n">>, <<"Y", "\n">>}

\* C8: RemoveTree is invoked for a branch only if its reason is Merged, or its
\* reason is RemoteGone and either gh reported a merged PR or the user
\* answered yes to the prompt; a Merged worktree is never prompted for.
C8_RemoteGoneNeedsConfirmation ==
    /\ lastAct.removeTree =>
          \/ lastAct.reason = PruneMerged
          \/ /\ lastAct.reason = PruneRemoteGone
             /\ \/ (pruneNwo # EmptyString /\ lastAct.gh = "merged")
                \/ (lastAct.prompted /\ lastAct.answer \in YesAnswers)
    /\ lastAct.reason = PruneMerged => (~lastAct.prompted /\ lastAct.gh = "not asked")

C8_Witness ==
    /\ lastAct.kind = "pruned"
    /\ lastAct.removeTree
    /\ lastAct.reason = PruneRemoteGone
    /\ lastAct.gh = "none"
    /\ lastAct.prompted
    /\ lastAct.answer = <<"y", "e", "s", "\n">>

----------------------------------------------------------------------------
(* Claims about ParseLink and ParseRepoURL *)

\* the input URL has a scheme and its host is github.com
ExpectedHost == linkIn.origin.scheme # <<>> /\ linkIn.origin.host = GithubHost

LinkParsed == linkPc \in {"link", "canon", "repo", "done"}
LinkOk == linkOut.err = LinkNoError

C12_KindMapping ==
    (LinkParsed /\ ExpectedHost /\ Len(linkIn.segs) >= 4) =>
        /\ (LinkOk /\ linkIn.segs[3] = SegIssues) => linkOut.link.Kind = "KindIssue"
        /\ (LinkOk /\ linkIn.segs[3] = SegPull) => linkOut.link.Kind = "KindPR"
        /\ linkIn.segs[3] \notin {SegIssues, SegPull} =>
                linkOut.err.kind = "unexpected path segment"
        /\ LinkOk =>
            /\ linkIn.segs[3] \in {SegIssues, SegPull}
            /\ linkOut.link.Owner = linkIn.segs[1]
            /\ linkOut.link.Repo = linkIn.segs[2]
            /\ Atoi(linkIn.segs[4]).ok
            /\ linkOut.link.Number = Atoi(linkIn.segs[4]).n
            /\ NWO(linkOut.link) = linkIn.segs[1] \o <<"/">> \o linkIn.segs[2]

\* a pull request URL parsed to Kind = KindPR with number 70
C12_Witness ==
    /\ LinkParsed
    /\ ExpectedHost
    /\ linkIn.segs = <<<<"o">>, <<"r">>, SegPull, <<"7", "0">>>>
    /\ linkOut = [link |-> [Kind |-> "KindPR", Owner |-> <<"o">>, Repo |-> <<"r">>,
                            Number |-> 70],
                  err |-> LinkNoError]

\* the text denotes a non-negative integer: digits only, or a minus sign
\* before zeros
NonNegativeInteger(s) ==
    \/ s # <<>> /\ \A i \in DOMAIN s : s[i] \in DigitChars
    \/ Len(s) > 1 /\ s[1] \in {"+", "-"} /\ \A i \in 2..Len(s) : s[i] = "0"
    \/ Len(s) > 1 /\ s[1] = "+" /\ \A i \in 2..Len(s) : s[i] \in DigitChars

\* C13: for a URL that otherwise parses, a fourth segment that is not a
\* non-negative integer fails with the invalid-number error, and every Link
\* returned has Number >= 0
C13_NumberNonNegative ==
    (LinkParsed /\ ExpectedHost /\ Len(linkIn.segs) >= 4
        /\ linkIn.segs[3] \in {SegIssues, SegPull}) =>
        /\ ~NonNegativeInteger(linkIn.segs[4]) => linkOut.err.kind = "parsing number"
        /\ LinkOk => linkOut.link.Number >= 0

\* the number of non-empty segments of the path
NonEmptySegments(segs) == Cardinality({i \in DOMAIN segs : segs[i] # <<>>})

\* C14: on the expected host, a path with fewer than four non-empty segments
\* fails with the malformed-path error, and no Link returned has an empty
\* Owner or an empty Repo
C14_MalformedPath ==
    (LinkParsed /\ ExpectedHost) =>
        /\ NonEmptySegments(linkIn.segs) < 4 => linkOut.err.kind = "unexpected path"
        /\ LinkOk => (linkOut.link.Owner # <<>> /\ linkOut.link.Repo # <<>>)

RepoParsed == linkPc \in {"repo", "done"}
RepoOk == repoOut.err = LinkNoError

\* C15: ParseRepoURL succeeds exactly when the host is github.com and the
\* path starts with two non-empty segments; then Owner is the first segment,
\* Repo is the second without its .git suffix and is not empty, CloneURL is
\* https://github.com/<Owner>/<Repo>.git, and parsing CloneURL gives the
\* same result
C15_ParseRepoURL ==
    /\ RepoParsed =>
        /\ RepoOk <=> /\ ExpectedHost
                      /\ Len(linkIn.segs) >= 2
                      /\ linkIn.segs[1] # <<>>
                      /\ linkIn.segs[2] # <<>>
        /\ RepoOk =>
            /\ repoOut.info.Owner = linkIn.segs[1]
            /\ repoOut.info.Repo = TrimSuffix(linkIn.segs[2], DotGit)
            /\ repoOut.info.Repo # <<>>
            /\ repoOut.info.CloneURL =
                    HttpsPrefix \o repoOut.info.Owner \o <<"/">> \o repoOut.info.Repo \o DotGit
    /\ linkPc = "done" => repoAgain = repoOut

----------------------------------------------------------------------------
(* Further claims about FindProjectByRemote *)

\* project i is loaded and its repository has no remote at all
HasNoRemotes(i) ==
    /\ registry[i].loadable
    /\ \A r \in RemoteNames : registry[i].remotes[r].state = "absent"

\* C16: for every target, FindProjectByRemote never returns a project that
\* has no remotes
C16_NoRemotesNeverMatches ==
    FindDone => \A i \in DOMAIN registry : HasNoRemotes(i) => ~Returned(i)

\* C17: the result of a call does not depend on the order in which the
\* ranges over the remote maps visit their keys, of two projects with the
\* same remotes the later one is never returned, and the call changes
\* neither the registered projects nor their remotes
C17_DeterministicReadOnly ==
    [][(findPc = "call" /\ findPc' = "done" /\ listOk) =>
          /\ findResult' = FindProjectByRemote(nwo, registry,
                                               SortedScan(LoadProjects(registry), nwo),
                                               SortedScan(LoadProjects(registry), nwo))
          /\ \A i, j \in DOMAIN registry :
                (/\ i < j
                 /\ registry[i].loadable
                 /\ registry[j].loadable
                 /\ registry[i].remotes = registry[j].remotes)
                    => ~(findResult'.err = NoError /\ findResult'.name = registry[j].name)
          /\ registry' = registry
          /\ listOk' = listOk
          /\ nwo' = nwo]_vars

\* two projects tie in the last pass, each with two remotes to range over,
\* and the first is returned
C17_Witness ==
    /\ FindDone
    /\ Len(registry) = 2
    /\ registry[1].remotes = registry[2].remotes
    /\ RemoteIs(1, "upstream", nwo)
    /\ registry[1].remotes["origin"].state = "ok"
    /\ ~RemoteIs(1, "origin", nwo)
    /\ Pass2(LoadProjects(registry), nwo, SortedScan(LoadProjects(registry), nwo)) = {}
    /\ Returned(1)

\* project i is loaded but its origin has no identity: the remote is not
\* configured, or its URL lookup fails
OriginUnresolved(i) ==
    /\ registry[i].loadable
    /\ registry[i].remotes["origin"].state # "ok"

\* the position of project i in the slice of loaded projects
LoadedIndex(i) == Cardinality({j \in 1..i : registry[j].loadable})

\* C18: a project whose origin cannot be resolved is in neither the
\* origin-exact pass nor the fork-preference pass, and is returned by the
\* any-remote pass when that pass is reached, another of its remotes equals
\* the target and no earlier project matches
C18_OriginUnresolved ==
    FindDone =>
        \A i \in DOMAIN registry : OriginUnresolved(i) =>
            /\ LoadedIndex(i) \notin Pass1(LoadProjects(registry), nwo)
            /\ \A has \in Scans(LoadProjects(registry), nwo) :
                    LoadedIndex(i) \notin Pass2(LoadProjects(registry), nwo, has)
            /\ (/\ Pass1(LoadProjects(registry), nwo) = {}
                /\ Pass2(LoadProjects(registry), nwo, SortedScan(LoadProjects(registry), nwo)) = {}
                /\ \E r \in RemoteNames \ {"origin"} : RemoteIs(i, r, nwo)
                /\ \A j \in 1..(i - 1) : j \notin AnyRemoteMatches(nwo))
                    => Returned(i)

----------------------------------------------------------------------------
(* Claims about tmux.SessionName and the sessions of worktrees *)

\* project + "-" + branch with "." replaced by "_" and "/" and ":" by "-"
TmuxSafe(project, branch) ==
    ReplaceAll(ReplaceAll(ReplaceAll(project \o <<"-">> \o branch, ".", "_"), "/", "-"),
               ":", "-")

\* C19: the session name an operation computes for a project and a branch
\* is project + "-" + branch with every "." replaced by "_" and every "/"
\* and ":" replaced by "-", so it contains none of ".", ":" and "/"
C19_SessionNameSafe ==
    sessAct.session # <<>> =>
        /\ sessAct.session = TmuxSafe(SessConfig.Name, sessAct.branch)
        /\ \A i \in DOMAIN sessAct.session : sessAct.session[i] \notin {".", ":", "/"}

\* C20: the worktrees of two different branches never have the same session
\* name, so the session that OpenSession finds running, or that RemoveTree
\* kills, is the one of the worktree the operation is given
C20_SessionPerWorktree ==
    /\ \A i, j \in DOMAIN sessTrees :
            i # j => SessionName(SessConfig.Name, sessTrees[i].Branch)
                        # SessionName(SessConfig.Name, sessTrees[j].Branch)
    /\ (sessAct.op \in {"open", "remove"} /\ sessAct.found) => sessAct.dir = sessAct.path

----------------------------------------------------------------------------
(* Claims about the order of session kill and worktree removal *)

\* the last operation was a RemoveTree that found a worktree with a running
\* session and whose git worktree removal failed: the worktree is still listed
RemovalFailed ==
    /\ sessAct.op = "remove"
    /\ sessAct.found
    /\ FindByBranch(sessTrees, sessAct.branch) # 0

\* C21: RemoveTree kills the worktree's tmux session only once git worktree
\* removal has succeeded, so a removal that fails leaves the session running.
C21_KillAfterRemoval ==
    RemovalFailed => SessionExists(tmuxServer, sessAct.session)

----------------------------------------------------------------------------
(* Claims about the tree browser *)

\* a delete is in progress: executeDelete has set the mode and the
\* deleteResultMsg has not been handled
DeleteInProgress ==
    /\ tuiRun = "running"
    /\ tui.mode = modeDeleting
    /\ tuiInflight # EmptyBag

\* the step handles no deleteResultMsg: it is the step of a key message
NoResultHandled == BagCardinality(tuiInflight') >= BagCardinality(tuiInflight)

\* C22: while a delete is in progress, no key message changes the model
\* (cursor, expansion state, mode, pending action) or starts another delete,
\* create or open.
C22_KeysBlockedWhileDeleting ==
    [][(DeleteInProgress /\ NoResultHandled) => UNCHANGED <<tui, tuiInflight>>]_vars

\* C30: after any sequence of key messages and delete results, whenever at
\* least one row is visible the cursor satisfies 0 <= cursor < visibleRows.
C30_CursorInRange ==
    (tuiRun \in {"running", "quit"} /\ visibleRows(tui) > 0)
        => (0 <= tui.cursor /\ tui.cursor < visibleRows(tui))

----------------------------------------------------------------------------
(* Claims about InferProjectFromDir *)

InferDone == inferPc = "done"

\* the error mentions --project
MentionsProjectFlag(err) == \E i \in DOMAIN err : err[i] = "--project"

\* the remote of the directory resolves to a registered project
ResolvesToProject(r) ==
    /\ inferDir.remotes[r].state = "ok"
    /\ listOk
    /\ LET target == NormalizeRemoteURL(inferDir.remotes[r].url)
           has == SortedScan(LoadProjects(registry), target)
       IN  FindProjectByRemote(target, registry, has, has).err = NoError

\* run on the repository of a registered project, the call returns that
\* project
InferReturnsOwnProject ==
    (InferDone /\ listOk /\ inferDir.kind = "project")
        => /\ inferResult.err = NoInferError
           /\ inferResult.name = registry[inferDir.project].name

\* an error is returned, and it mentions --project, exactly when the
\* directory is not in a git repository or none of its remotes resolves
InferErrorExactly ==
    InferDone =>
        /\ (inferResult.err # NoInferError) <=>
              (inferDir.kind = "notgit" \/ \A r \in RemoteNames : ~ResolvesToProject(r))
        /\ inferResult.err # NoInferError => MentionsProjectFlag(inferResult.err)

\* C23: InferProjectFromDir run on the repository directory of a registered
\* project P returns P, for every set of registered projects and every set of
\* remotes of that repository; it returns an error mentioning --project
\* exactly when the directory is not a git repository or none of its remotes
\* resolves to a registered project.
C23_InferOwnProject == InferReturnsOwnProject /\ InferErrorExactly

----------------------------------------------------------------------------
(* Claims about false positives of the fork-preference pass *)

\* the projects whose origin has the repository basename of t
BasenameMatches(t) ==
    {i \in DOMAIN registry :
        /\ registry[i].loadable
        /\ registry[i].remotes["origin"].state = "ok"
        /\ LastSegment(NormalizeRemoteURL(registry[i].remotes["origin"].url)) = LastSegment(t)}

\* C24 as stated: the fork-preference pass compares only the repository
\* basename, so when no origin equals the target the first project whose
\* origin shares the target's basename is returned, also when none of its
\* remotes equals the target.
C24_BasenameOnlyMatch ==
    (FindDone /\ nwo # EmptyString /\ OriginMatches(nwo) = {} /\ BasenameMatches(nwo) # {})
        => Returned(FirstIndex(BasenameMatches(nwo)))

\* C24 as amended: the fork-preference pass also requires a remote equal to
\* the target, so a returned project whose origin shares the target's
\* repository basename always has a remote equal to the target.
C24_NoBasenameFalsePositive ==
    FindDone =>
        \A i \in DOMAIN registry :
            (Returned(i) /\ i \in BasenameMatches(nwo)) => i \in AnyRemoteMatches(nwo)

\* a project whose origin shares the basename without any remote equal to the
\* target is passed over for a later fork of the target
C24_Witness ==
    /\ FindDone
    /\ OriginMatches(nwo) = {}
    /\ \E i, j \in DOMAIN registry :
        /\ i < j
        /\ i \in BasenameMatches(nwo) \ AnyRemoteMatches(nwo)
        /\ j \in ForkMatches(nwo)
        /\ Returned(j)

----------------------------------------------------------------------------
(* Claims about what tree prune leaves alone *)

\* a worktree tree prune must leave alone: bare, detached, on the project's
\* base branch, or the main working tree of the repository
Protected(t, cfg) ==
    \/ t.Bare
    \/ t.Branch = NoBranch
    \/ t.Branch = BaseBranch
    \/ t.Path = RepoDir(cfg.Name)

\* the loop over the worktrees of a project has visited a worktree
Visited == prunePc = "trees" /\ treeIdx > 1 /\ lastAct # NoAct

\* C25: tree prune never removes, and never even classifies, a worktree that
\* is bare, detached, on the project's base branch or the main working tree,
\* whatever PruneCheck would return for it and whatever the user answers.
C25_ProtectedTreesUntouched ==
    /\ Visited =>
          (Protected(trees[treeIdx - 1], rc) =>
              /\ lastAct.kind = "skip"
              /\ lastAct.reason = PruneNone
              /\ lastAct.gh = "not asked"
              /\ ~lastAct.prompted
              /\ ~lastAct.removeTree)
    /\ prunePc = "trees" =>
          \A i \in DOMAIN trees :
              Protected(trees[i], rc) => \E j \in DOMAIN worktrees : worktrees[j] = trees[i]

\* the main working tree, on a branch that is gone from the remote, is
\* passed over after another worktree of the project was pruned
C25_Witness ==
    /\ Visited
    /\ ~dryRunFlag
    /\ remoteBranches = BranchMap({})
    /\ trees[1].Branch = <<"f">>
    /\ trees[1].Path = RepoDir(rc.Name)
    /\ Len(worktrees) < Len(trees)
    /\ \E j \in DOMAIN worktrees : worktrees[j] = trees[1]

----------------------------------------------------------------------------
(* Claims about tree prune --dry-run *)

\* the worktree just visited would have been pruned: its branch is merged,
\* or gone from the remote and confirmed by gh or by the user
WouldPrune(act) ==
    \/ act.reason = PruneMerged
    \/ /\ act.reason = PruneRemoteGone
       /\ \/ (pruneNwo # EmptyString /\ act.gh = "merged")
          \/ (act.prompted /\ act.answer \in YesAnswers)

\* the step visits a worktree of the project that is open
VisitsTree == prunePc = "trees" /\ prunePc' = "trees" /\ treeIdx' = treeIdx + 1

\* C26: with --dry-run, tree prune removes nothing: RemoveTree is never
\* invoked and no worktree or tmux session changes, while each worktree that
\* would have been pruned is reported and counted.
C26_DryRunRemovesNothing ==
    [][dryRunFlag =>
          /\ sessions' = sessions
          /\ ~lastAct'.removeTree
          /\ VisitsTree =>
                /\ worktrees' = worktrees
                /\ WouldPrune(lastAct') => lastAct'.kind = "would prune"
                /\ (pruned' = pruned + 1) <=> (lastAct'.kind = "would prune")
                /\ pruned' \in {pruned, pruned + 1}]_vars

\* a dry run has reported a worktree whose session is running and whose
\* removal the user confirmed: worktree and session are still there
C26_Witness ==
    /\ dryRunFlag
    /\ prunePc = "trees"
    /\ lastAct.kind = "would prune"
    /\ lastAct.reason = PruneRemoteGone
    /\ lastAct.prompted
    /\ pruned >= 1
    /\ worktrees = trees
    /\ SessionName(rc.Name, lastAct.branch) \in sessions

----------------------------------------------------------------------------
(* Claims about AddTree *)

\* no branch is checked out in two worktrees
OneTreePerBranch(wts) ==
    \A i, j \in DOMAIN wts : wts[i].Branch = wts[j].Branch => i = j

----------------------------------------------------------------------------
(* Claims about forest tree remove *)

RemoveDone == rmPc = "done"

\* the worktree of the branch the command works on is still there
TargetInPlace == FindByBranch(rmTrees, rmAct.branch) # 0

\* the user agreed to the "Force remove?" prompt
ForceConfirmed == rmAct.prompted /\ rmAct.answer \in YesAnswers

\* C28: tree remove never force-removes a dirty worktree without consent.
\* A dirty worktree is gone only when --force was given or the user
\* confirmed the "Force remove?" prompt; the forced second removal is
\* attempted only after the first one failed with ErrWorktreeDirty and the
\* user confirmed; when the user declines, the worktree is left in place and
\* the command returns no error; any other error of the first removal is
\* returned without a prompt.
C28_ForceNeedsConsent ==
    /\ \A b \in rmDirty :
          FindByBranch(rmTrees, b) = 0 => forceFlag \/ ForceConfirmed
    /\ rmAct.forced => rmAct.first = ErrWorktreeDirty /\ ForceConfirmed
    /\ rmAct.prompted => rmAct.first = ErrWorktreeDirty
    /\ (RemoveDone /\ rmAct.first = ErrWorktreeDirty /\ ~ForceConfirmed) =>
          /\ rmAct.prompted
          /\ TargetInPlace
          /\ ~rmAct.forced
          /\ ~rmAct.removed
          /\ rmAct.err = "nil"
    /\ (RemoveDone /\ rmAct.first \notin {"not called", "nil", ErrWorktreeDirty}) =>
          /\ rmAct.err = rmAct.first
          /\ ~rmAct.prompted
          /\ ~rmAct.forced

\* a dirty worktree whose removal was refused, then declined by the user
\* and left in place
C28_Witness ==
    /\ RemoveDone
    /\ ~forceFlag
    /\ rmAct.branch \in rmDirty
    /\ rmAct.first = ErrWorktreeDirty
    /\ rmAct.prompted
    /\ rmAct.answer \notin YesAnswers
    /\ TargetInPlace

----------------------------------------------------------------------------
(* Claims about the order of ParseLink's checks *)

\* the five checks, each on the URL itself
UrlParseFails == ~urlParse(linkRaw).ok
HostFails == urlParse(linkRaw).Host # GithubHost
SegmentCountFails == Len(Split(Trim(urlParse(linkRaw).Path))) < 4
KindFails == Split(Trim(urlParse(linkRaw).Path))[3] \notin {SegIssues, SegPull}
NumberFails == ~Atoi(Split(Trim(urlParse(linkRaw).Path))[4]).ok

\* the error of the first check that fails, in the order URL parse, host,
\* segment count, kind, number
FirstFailure ==
    IF UrlParseFails THEN "parsing URL"
    ELSE IF HostFails THEN "unsupported host"
    ELSE IF SegmentCountFails THEN "unexpected path"
    ELSE IF KindFails THEN "unexpected path segment"
    ELSE IF NumberFails THEN "parsing number"
    ELSE "nil"

\* a URL that url.Parse accepts, written with a host other than github.com
WrongHostWritten ==
    /\ ~UrlParseFails
    /\ linkIn.origin.scheme # <<>>
    /\ linkIn.origin.host # GithubHost

\* a URL that url.Parse accepts, written for github.com with a kind that is
\* neither "issues" nor "pull" and with a number segment that is not a number
BadKindAndNumberWritten ==
    /\ ~UrlParseFails
    /\ linkIn.origin.scheme # <<>>
    /\ linkIn.origin.host = GithubHost
    /\ Len(linkIn.segs) >= 4
    /\ linkIn.segs[3] \notin {SegIssues, SegPull}
    /\ ~Atoi(linkIn.segs[4]).ok

\* C29: ParseLink reports the first check that fails, in the order URL
\* parse, host, segment count, kind, number: a URL with a wrong host fails
\* with the unsupported-host error whatever its path, and a URL with an
\* unrecognized kind fails with the error about the kind even when its
\* number segment is invalid too.
C29_FirstFailingCheck ==
    linkPc # "start" =>
        /\ linkOut.err.kind = FirstFailure
        /\ WrongHostWritten => linkOut.err.kind = "unsupported host"
        /\ BadKindAndNumberWritten => linkOut.err.kind = "unexpected path segment"

\* a URL with an unrecognized kind and an invalid number was parsed
C29_Witness ==
    /\ linkPc # "start"
    /\ BadKindAndNumberWritten
    /\ linkOut.err.kind = "unexpected path segment"

====
